---- MODULE Spec2Model ----
(***************************************************************************)
(* Model of the Aliyun ECS spot-runner scripts:                            *)
(*   scripts/create_spot_instance.py  (the Provisioner)                    *)
(*   scripts/select_instance.py       (the Selector)                       *)
(*   scripts/write_user_data.py       (the UserData writer)                *)
(* One run of one script is one behaviour: Init draws the environment the  *)
(* script is started in, every external process (cloud CLI, advisor)       *)
(* answers nondeterministically, and pc follows the script's control flow. *)
(***************************************************************************)
EXTENDS Integers, Sequences, FiniteSets, TLC

VARIABLES
    prog,        \* which script this run executes
    pc,          \* position in main()
    env,         \* os.environ as read at the top of main()
    file,        \* <<>> when CANDIDATES_FILE names no file, else <<lines>>
    lookup,      \* <<>> or <<what the image-family lookup returned>>
    image_id,    \* result of get_image_id
    candidates,  \* result of parse_candidates_file
    candIdx,     \* index of the candidate the outer loop is at (attempt)
    diskIdx,     \* index of the disk category the inner loop is at
    calls,       \* every RunInstances command issued, in order, with the attempt it belongs to
    ext,         \* every external process started, in order (by command)
    last,        \* <<>> or <<answer>> of the latest creation call
    otherFail,   \* history: attempts whose answer was a failure without the unsupported-disk marker
    last_error,  \* single-attempt mode's last_error: <<>> (None) or <<response>>
    user_data_content, \* Provisioner: <<>> (None) or <<the boot script, as code points>>
    params,      \* Selector: min_cpu, max_cpu, min_mem, max_mem, arch_param once validated
    query_strategies, \* Selector: the strategy list
    stratIdx,    \* Selector: index of the strategy the query loop is at (query_attempt)
    queries,     \* Selector: every advisor command line issued, in order
    lastAdv,     \* Selector: <<>> or <<what the latest advisor query returned>>
    json_result, \* Selector: <<>> (None) or <<the accepted list of offers>>
    written,     \* Selector: <<>> or <<the lines of the candidate file it created>>
    user_data_b64, \* Writer: the payload text it took, <<>> before it took one
    stdin_read,  \* Writer: whether standard input has been read
    user_data,   \* Writer: <<>> or <<the decoded text, as code points>>
    output,      \* Writer: <<>> or <<the bytes written to the destination file>>
    report,      \* Writer: <<>> or <<the file name and byte count it reported>>
    stdout,      \* lines printed to standard output
    errMsg,      \* <<>> or <<the message of the error that ended the run>>
    exitStatus   \* process exit status, -1 while running

vars == <<prog, pc, env, file, lookup, image_id, candidates, candIdx, diskIdx, calls,
          ext, last, otherFail, last_error, user_data_content, params, query_strategies,
          stratIdx,
          queries, lastAdv, json_result, written, user_data_b64, stdin_read, user_data,
          output, report, stdout, errMsg, exitStatus>>

\* The Provisioner's own variables, the Selector's and the Writer's.
provVars == <<file, lookup, image_id, candidates, candIdx, diskIdx, calls, last, otherFail,
              last_error, user_data_content>>
selVars == <<params, query_strategies, stratIdx, queries, lastAdv, json_result, written>>
wrVars == <<user_data_b64, stdin_read, user_data, output, report>>

\* Python's None, and an environment variable that is not set.
None == "<None>"

\* Python truthiness of an Optional[str].
Truthy(x) == x # None /\ x # ""

-----------------------------------------------------------------------------
(* Text: base64 and UTF-8, as both the Provisioner and the writer use them *)

\* The base64 alphabet, in the order of the values 0..63.
B64Chars ==
    <<"A", "B", "C", "D", "E", "F", "G", "H", "I", "J", "K", "L", "M", "N", "O", "P",
      "Q", "R", "S", "T", "U", "V", "W", "X", "Y", "Z", "a", "b", "c", "d", "e", "f",
      "g", "h", "i", "j", "k", "l", "m", "n", "o", "p", "q", "r", "s", "t", "u", "v",
      "w", "x", "y", "z", "0", "1", "2", "3", "4", "5", "6", "7", "8", "9", "+", "/">>

\* The padding character.
B64Pad == "="

\* Characters str.encode("ascii") rejects, among those of the payloads.
NonAscii == {"<U+00E9>"}

\* The value of a character of the alphabet.
B64Value(c) == (CHOOSE i \in 1..Len(B64Chars) : B64Chars[i] = c) - 1

IsB64Char(c) == \E i \in 1..Len(B64Chars) : B64Chars[i] = c

\* binascii.a2b_base64 without strict mode, as base64.b64decode calls it: the
\* characters outside the alphabet are skipped, four characters give three
\* bytes, the padding that completes a group ends the input, and an
\* incomplete group at the end is an error (binascii.Error).
RECURSIVE A2bBase64(_, _, _, _, _)
A2bBase64(data, quad_pos, pads, leftchar, bin) ==
    IF data = <<>>
    THEN IF quad_pos # 0 THEN [err |-> TRUE, bytes |-> <<>>] ELSE [err |-> FALSE, bytes |-> bin]
    ELSE LET this_ch == Head(data)
         IN  IF this_ch = B64Pad
             THEN IF quad_pos >= 2 /\ quad_pos + pads + 1 >= 4
                  THEN [err |-> FALSE, bytes |-> bin]
                  ELSE A2bBase64(Tail(data), quad_pos,
                                 IF quad_pos >= 2 THEN pads + 1 ELSE pads, leftchar, bin)
             ELSE IF ~IsB64Char(this_ch)
             THEN A2bBase64(Tail(data), quad_pos, pads, leftchar, bin)
             ELSE LET v == B64Value(this_ch)
                  IN  CASE quad_pos = 0 -> A2bBase64(Tail(data), 1, 0, v, bin)
                        [] quad_pos = 1 ->
                             A2bBase64(Tail(data), 2, 0, v % 16,
                                       Append(bin, leftchar * 4 + (v \div 16)))
                        [] quad_pos = 2 ->
                             A2bBase64(Tail(data), 3, 0, v % 4,
                                       Append(bin, leftchar * 16 + (v \div 4)))
                        [] quad_pos = 3 ->
                             A2bBase64(Tail(data), 0, 0, 0, Append(bin, leftchar * 64 + v))

\* base64.b64decode(s) of a text of ASCII characters.
B64Decode(s) == A2bBase64(s, 0, 0, 0, <<>>)

\* A continuation byte of UTF-8.
Cont(b) == b \in 128..191

\* bytes.decode("utf-8"): the code points, or an error (UnicodeDecodeError)
\* for a byte sequence that is not UTF-8.
RECURSIVE Utf8Decode(_)
Utf8Decode(bytes) ==
    IF bytes = <<>> THEN [err |-> FALSE, chars |-> <<>>]
    ELSE LET b == bytes[1]
             n == Len(bytes)
             width == IF b < 128 THEN 1
                      ELSE IF b \in 194..223 /\ n >= 2 /\ Cont(bytes[2]) THEN 2
                      ELSE IF /\ b \in 224..239 /\ n >= 3 /\ Cont(bytes[2]) /\ Cont(bytes[3])
                              /\ (b = 224 => bytes[2] >= 160)
                              /\ (b = 237 => bytes[2] <= 159) THEN 3
                      ELSE IF /\ b \in 240..244 /\ n >= 4
                              /\ Cont(bytes[2]) /\ Cont(bytes[3]) /\ Cont(bytes[4])
                              /\ (b = 240 => bytes[2] >= 144)
                              /\ (b = 244 => bytes[2] <= 143) THEN 4
                      ELSE 0
             point == CASE width = 1 -> b
                        [] width = 2 -> (b - 192) * 64 + (bytes[2] - 128)
                        [] width = 3 -> (b - 224) * 4096 + (bytes[2] - 128) * 64 + (bytes[3] - 128)
                        [] width = 4 -> (b - 240) * 262144 + (bytes[2] - 128) * 4096
                                            + (bytes[3] - 128) * 64 + (bytes[4] - 128)
                        [] OTHER -> 0
         IN  IF width = 0 THEN [err |-> TRUE, chars |-> <<>>]
             ELSE LET rest == Utf8Decode(SubSeq(bytes, width + 1, n))
                  IN  IF rest.err THEN rest
                      ELSE [err |-> FALSE, chars |-> <<point>> \o rest.chars]

\* str.encode("utf-8"), which is also what a file opened with
\* encoding="utf-8" receives.
RECURSIVE Utf8Encode(_)
Utf8Encode(chars) ==
    IF chars = <<>> THEN <<>>
    ELSE LET p == Head(chars)
         IN  (IF p < 128 THEN <<p>>
              ELSE IF p < 2048 THEN <<192 + (p \div 64), 128 + (p % 64)>>
              ELSE IF p < 65536
              THEN <<224 + (p \div 4096), 128 + ((p \div 64) % 64), 128 + (p % 64)>>
              ELSE <<240 + (p \div 262144), 128 + ((p \div 4096) % 64),
                     128 + ((p \div 64) % 64), 128 + (p % 64)>>)
                 \o Utf8Encode(Tail(chars))

\* os.environ.get(name, "") of a variable that is <<>> when unset and
\* <<text>> when set.
EnvGetText(v) == IF v = <<>> THEN <<>> ELSE v[1]

-----------------------------------------------------------------------------
(* Bounds of the model *)

\* Longest candidate file, in lines.
MaxLines == 3

-----------------------------------------------------------------------------
(* Provisioner: data *)

\* disk_categories, create_spot_instance.py lines 484 and 574.
DiskCategoriesFour == <<"cloud_essd", "cloud_ssd", "cloud_efficiency", "cloud_auto">>

\* Variant of DiskCategories: the first entry is left blank.
DiskCategoriesBlankFirst == <<"", "cloud_ssd", "cloud_efficiency">>

DiskCategories == <<"cloud_essd", "cloud_ssd", "cloud_efficiency">>

\* Variant of RequiredProv: INSTANCE_NAME is read with os.environ.get.
RequiredProvWithoutName ==
    <<"ALIYUN_ACCESS_KEY_ID", "ALIYUN_ACCESS_KEY_SECRET", "ALIYUN_REGION_ID",
      "ALIYUN_VPC_ID", "ALIYUN_SECURITY_GROUP_ID">>

\* The variables main() reads with get_env_var, in the order it reads them.
RequiredProv ==
    <<"ALIYUN_ACCESS_KEY_ID", "ALIYUN_ACCESS_KEY_SECRET", "ALIYUN_REGION_ID",
      "ALIYUN_VPC_ID", "ALIYUN_SECURITY_GROUP_ID", "INSTANCE_NAME">>

RequiredSet(req) == {req[i] : i \in 1..Len(req)}

\* The first variable of req that is not set, None when all are set:
\* get_env_var calls error_exit at the first one that is missing.
FirstMissing(req, set) ==
    IF \A i \in 1..Len(req) : req[i] \in set THEN None
    ELSE req[CHOOSE i \in 1..Len(req) :
                 /\ req[i] \notin set
                 /\ \A j \in 1..(i - 1) : req[j] \in set]

\* Error phrases a RunInstances answer may carry.
Markers ==
    {"", "InvalidSystemDiskCategory", "invalidsystemdiskcategory",
     "not support", "Not Support", "NOT SUPPORTED", "NoStock"}

\* str.lower() on the phrases above.
Lower(m) ==
    CASE m = "InvalidSystemDiskCategory" -> "invalidsystemdiskcategory"
      [] m = "NoStock" -> "nostock"
      [] m = "Not Support" -> "not support"
      [] m = "NOT SUPPORTED" -> "not supported"
      [] OTHER -> m

\* "not support" in s, for s one of the lower-cased phrases.
ContainsNotSupport(s) == s \in {"not support", "not supported"}

\* An answer of the creation call (stdout + stderr), by what main() reads of it:
\*   empty    the text is ""
\*   idSet    data["InstanceIdSets"]["InstanceIdSet"] when the text is a JSON
\*            object holding such a list, else <<>> (None is a JSON null)
\*   regexId  the first match of "InstanceId"\s*:\s*"([^"]+)", else None
\*   marker   the error phrase in the text
Resp(e, s, r, m) == [empty |-> e, idSet |-> s, regexId |-> r, marker |-> m]

\* What the RunInstances process of one creation call does (create_instance,
\* lines 356-360): exit_code and response are the exit code and stdout +
\* stderr; decodes says that this output is UTF-8 text (text=True decodes
\* it, and raises UnicodeDecodeError when it is not); hangs says that the
\* process never exits. An OSError or SubprocessError of subprocess.run is
\* returned as (1, str(e)): an answer with exit code 1 and an error phrase.
Answer(c, r) == [exit_code |-> c, response |-> r, decodes |-> TRUE, hangs |-> FALSE]

Answers ==
    { Answer(0, Resp(FALSE, <<"i-aaa">>, None, "")),              \* {"InstanceIdSets":{"InstanceIdSet":["i-aaa"]}}
      Answer(0, Resp(FALSE, <<"i-aaa", "i-ccc">>, "i-bbb", "")),  \* the list and an "InstanceId" key
      Answer(0, Resp(FALSE, <<>>, "i-bbb", "")),                  \* ... "InstanceId": "i-bbb" ...
      Answer(0, Resp(FALSE, <<>>, "null", "")),                   \* ... "InstanceId": "null" ...
      Answer(0, Resp(FALSE, <<None>>, "i-bbb", "")),              \* {"InstanceIdSets":{"InstanceIdSet":[null]},"InstanceId":"i-bbb"}
      Answer(0, Resp(FALSE, <<>>, None, "")),                     \* {"RequestId":"R1"}
      Answer(0, Resp(FALSE, <<>>, None, "Not Support")),          \* exit 0, no ID, the phrase in the text
      Answer(0, Resp(TRUE, <<>>, None, "")),                      \* nothing printed
      Answer(1, Resp(TRUE, <<>>, None, "")),
      Answer(1, Resp(FALSE, <<"i-aaa">>, None, "")),              \* an ID, but a non-zero exit code
      Answer(1, Resp(FALSE, <<>>, None, "InvalidSystemDiskCategory")),
      Answer(1, Resp(FALSE, <<>>, None, "invalidsystemdiskcategory")),
      Answer(1, Resp(FALSE, <<>>, None, "not support")),
      Answer(1, Resp(FALSE, <<>>, None, "NOT SUPPORTED")),
      Answer(1, Resp(FALSE, <<>>, None, "NoStock")),
      \* output that is not UTF-8: an identifier, the error code, another error
      [Answer(0, Resp(FALSE, <<"i-aaa">>, None, "")) EXCEPT !.decodes = FALSE],
      [Answer(1, Resp(FALSE, <<>>, None, "InvalidSystemDiskCategory")) EXCEPT !.decodes = FALSE],
      [Answer(1, Resp(FALSE, <<>>, None, "NoStock")) EXCEPT !.decodes = FALSE],
      \* a process that never exits
      [Answer(1, Resp(TRUE, <<>>, None, "")) EXCEPT !.hangs = TRUE] }

\* extract_instance_id
ExtractInstanceId(r) ==
    IF Len(r.idSet) > 0 THEN r.idSet[1]
    ELSE IF r.regexId # None THEN r.regexId
    ELSE None

\* Variant of MultiOutcome: an extractable identifier is taken as success
\* whatever the exit code.
MultiOutcomeIgnoresExitCode(exit_code, response) ==
    IF ~response.empty
          /\ Truthy(ExtractInstanceId(response))
          /\ ExtractInstanceId(response) # "null"
    THEN "success"
    ELSE IF exit_code = 0 /\ ~response.empty THEN "next_disk"
    ELSE IF \/ response.marker = "InvalidSystemDiskCategory"
            \/ ContainsNotSupport(Lower(response.marker))
         THEN "next_disk"
         ELSE "break"

\* Variant of MultiOutcome: no disk-category fallback, every failure leaves
\* the loop.
MultiOutcomeNoDiskFallback(exit_code, response) ==
    IF /\ exit_code = 0 /\ ~response.empty
       /\ Truthy(ExtractInstanceId(response))
       /\ ExtractInstanceId(response) # "null"
    THEN "success"
    ELSE "break"

\* The decision main() takes on the answer of one creation call in the
\* candidate loop (lines 507-537): "success" prints the ID and exits,
\* "next_disk" goes on with the next disk category, "break" leaves the
\* disk-category loop.
MultiOutcome(exit_code, response) ==
    IF exit_code = 0 /\ ~response.empty
    THEN LET instance_id == ExtractInstanceId(response)
         IN  IF Truthy(instance_id) /\ instance_id # "null" THEN "success"
             ELSE "next_disk"
    ELSE IF \/ response.marker = "InvalidSystemDiskCategory"
            \/ ContainsNotSupport(Lower(response.marker))
         THEN "next_disk"
         ELSE "break"

\* The same decision in the single-attempt branch (lines 598-628).
SingleOutcome(exit_code, response) ==
    IF exit_code = 0 /\ ~response.empty
    THEN LET instance_id == ExtractInstanceId(response)
         IN  IF Truthy(instance_id) /\ instance_id # "null" THEN "success"
             ELSE "next_disk"
    ELSE IF \/ response.marker = "InvalidSystemDiskCategory"
            \/ ContainsNotSupport(Lower(response.marker))
         THEN "next_disk"
         ELSE "break"

\* A truthy JSON value that is no text (or a text holding a NUL character),
\* where the code goes on as with a text: it cannot be an argument of a
\* command line (subprocess.run raises TypeError, for the NUL character
\* ValueError, before it starts a process).
NotText == "<not a text>"

\* An answer of `aliyun ecs DescribeImageFromFamily`, by what
\* get_image_from_family reads of it:
\*   raised   subprocess.run raised (TimeoutExpired after 30 s, OSError)
\*   rc       the exit code
\*   out      stdout: "empty", "badjson" (not JSON) or "json"
\*   data     the JSON value: "dict" (an object), "list" (a list or a text
\*            that does not hold the text Image), "holdsImage" (a list or a
\*            text that holds it) or "number" (a number, or null)
\*   image    data["Image"]: "absent", "null", "empty" (a falsy value that
\*            is not null: "", 0, [], {}), "dict" (an object with members)
\*            or "string" (any other truthy value: a non-empty text, a
\*            number, a list)
\*   imageId  data["Image"]["ImageId"]: a non-empty text, "" when it is
\*            absent or falsy ("", null, 0, false, [], {}), NotText when it
\*            is any other value (a number, true, a list or object with
\*            members) or a text holding a NUL character
\*   seconds  the time the command takes to answer
\*   decodes  stdout and stderr are UTF-8 text
Lookup(x, rc, o, d, i, id) ==
    [raised |-> x, rc |-> rc, out |-> o, data |-> d, image |-> i, imageId |-> id,
     seconds |-> 1, decodes |-> TRUE]

\* subprocess.run(..., timeout=t): TimeoutExpired is raised when the command
\* has not answered after t seconds; without the argument (None, <<>>) the
\* call waits for the answer however long it takes.
TimeoutExpired(timeout, seconds) == timeout # <<>> /\ seconds > timeout[1]

\* The timeout get_image_from_family passes to subprocess.run (line 89).
LookupTimeout == <<30>>

LookupResults ==
    { Lookup(FALSE, 0, "json", "dict", "dict", "m-family"),
      Lookup(TRUE, 0, "empty", "dict", "absent", ""),
      Lookup(FALSE, 1, "json", "dict", "dict", "m-family"),
      Lookup(FALSE, 0, "empty", "dict", "absent", ""),
      Lookup(FALSE, 0, "badjson", "dict", "absent", ""),
      Lookup(FALSE, 0, "json", "list", "absent", ""),
      Lookup(FALSE, 0, "json", "holdsImage", "absent", ""),
      Lookup(FALSE, 0, "json", "dict", "absent", ""),
      Lookup(FALSE, 0, "json", "dict", "null", ""),
      Lookup(FALSE, 0, "json", "dict", "dict", ""),
      Lookup(FALSE, 0, "json", "number", "absent", ""),
      Lookup(FALSE, 0, "json", "dict", "string", ""),
      Lookup(FALSE, 0, "json", "dict", "empty", ""),
      Lookup(FALSE, 0, "json", "dict", "dict", NotText),
      \* the image of the family, answered after an hour
      [Lookup(FALSE, 0, "json", "dict", "dict", "m-family") EXCEPT !.seconds = 3600],
      \* output that is not UTF-8, with exit code 0 and with exit code 1
      [Lookup(FALSE, 0, "json", "dict", "dict", "m-family") EXCEPT !.decodes = FALSE],
      [Lookup(FALSE, 1, "empty", "dict", "absent", "") EXCEPT !.decodes = FALSE] }

\* An exception no handler catches: the interpreter prints a traceback to
\* stderr and exits with status 1.
Crash == "<uncaught exception>"

\* get_image_from_family: the image ID, None, or Crash (subprocess.run
\* raises UnicodeDecodeError on output that is not UTF-8, "Image" in data
\* raises TypeError on a JSON number, data["Image"] raises TypeError on a
\* list or a text that holds the text Image, image.get raises AttributeError
\* on a truthy value that is no object; none of them is caught). A falsy
\* value at Image fails the test of line 105 and gives None; a truthy
\* ImageId is returned as it is, text or not.
GetImageFromFamily(res) ==
    IF res.raised \/ TimeoutExpired(LookupTimeout, res.seconds) THEN None
    ELSE IF ~res.decodes THEN Crash
    ELSE IF res.rc # 0 THEN None
    ELSE IF res.out = "empty" THEN None
    ELSE IF res.out = "badjson" THEN None
    ELSE IF res.data = "number" THEN Crash
    ELSE IF res.data = "holdsImage" THEN Crash
    ELSE IF res.data = "list" THEN None
    ELSE IF res.image \in {"absent", "null", "empty"} THEN None
    ELSE IF res.image = "string" THEN Crash
    ELSE IF res.imageId # "" THEN res.imageId
    ELSE None

\* get_image_id, given the family lookup's result (None when no family is
\* configured and no lookup is made): the image ID, Crash, or None when
\* error_exit is called.
GetImageId(e, fromFamily) ==
    IF Truthy(e.ALIYUN_IMAGE_FAMILY) /\ fromFamily = Crash THEN Crash
    ELSE IF Truthy(e.ALIYUN_IMAGE_FAMILY) /\ Truthy(fromFamily) THEN fromFamily
    ELSE IF ~Truthy(e.ALIYUN_IMAGE_ID) THEN None
    ELSE e.ALIYUN_IMAGE_ID

\* A line of text is the sequence of its pieces: a field's text, the
\* delimiter "|", a blank " " or the line terminator "\n".
Whitespace == {" ", "\n"}

\* Decimal numerals int() accepts, and the integers they denote.
IntText == {"2", "4", "8", "16", "32", "64"}

\* int(s) for the texts above.
ParseInt(s) ==
    CASE s = "2" -> 2 [] s = "4" -> 4 [] s = "8" -> 8
      [] s = "16" -> 16 [] s = "32" -> 32 [] s = "64" -> 64

\* line.strip(): the line without the whitespace at its ends.
RECURSIVE StripLine(_)
StripLine(line) ==
    IF line = <<>> THEN <<>>
    ELSE IF Head(line) \in Whitespace THEN StripLine(Tail(line))
    ELSE IF line[Len(line)] \in Whitespace THEN StripLine(SubSeq(line, 1, Len(line) - 1))
    ELSE line

\* The text between two delimiters: "" when nothing is there.
FieldText(pieces) == IF pieces = <<>> THEN "" ELSE pieces[1]

\* line.split("|"): the texts between the delimiters, in order.
RECURSIVE SplitLine(_)
SplitLine(line) ==
    LET pipes == {i \in 1..Len(line) : line[i] = "|"}
    IN  IF pipes = {} THEN <<FieldText(line)>>
        ELSE LET i == CHOOSE j \in pipes : \A k \in pipes : j <= k
             IN  <<FieldText(SubSeq(line, 1, i - 1))>>
                     \o SplitLine(SubSeq(line, i + 1, Len(line)))

\* Whether parse_candidates_file keeps the line as a candidate.
IsCandidateLine(parts) == parts # <<"">> /\ Len(parts) >= 4

\* Whether int(parts[4]) raises ValueError on the line.
BadCpuField(parts) ==
    IsCandidateLine(parts) /\ Len(parts) > 4 /\ parts[5] # "" /\ parts[5] \notin IntText

\* The tuple with the zone read from the third field and the subnet from the
\* second.
ParseLineSwapped(parts) ==
    [instance_type |-> parts[1], zone_id |-> parts[3], vswitch_id |-> parts[2],
     spot_price_limit |-> parts[4],
     cpu_cores |-> IF Len(parts) > 4 /\ parts[5] # "" THEN ParseInt(parts[5]) ELSE 0]

\* The tuple parse_candidates_file appends for a line; cpu_cores 0 stands
\* for None.
ParseLine(parts) ==
    [instance_type |-> parts[1], zone_id |-> parts[2], vswitch_id |-> parts[3],
     spot_price_limit |-> parts[4],
     cpu_cores |-> IF Len(parts) > 4 /\ parts[5] # "" THEN ParseInt(parts[5]) ELSE 0]

RECURSIVE ParseLines(_)
ParseLines(lines) ==
    IF lines = <<>> THEN <<>>
    ELSE LET parts == SplitLine(StripLine(Head(lines)))
         IN  IF IsCandidateLine(parts)
             THEN <<ParseLine(parts)>> \o ParseLines(Tail(lines))
             ELSE ParseLines(Tail(lines))

\* parse_candidates_file on a file that exists.
ParseCandidatesFile(lines) == ParseLines(lines)

\* Whether parse_candidates_file raises on the file.
ParseRaises(lines) ==
    \E i \in 1..Len(lines) : BadCpuField(SplitLine(StripLine(lines[i])))

-----------------------------------------------------------------------------
(* Provisioner: the boot script (User Data) *)

\* ord(c) of the characters the boot scripts are written with; a Python str
\* is the sequence of its code points.
Ord(c) ==
    CASE c = "\n" -> 10 [] c = "\r" -> 13 [] c = " " -> 32 [] c = "!" -> 33
      [] c = "#" -> 35 [] c = "/" -> 47 [] c = "a" -> 97 [] c = "b" -> 98
      [] c = "h" -> 104 [] c = "i" -> 105 [] c = "l" -> 108 [] c = "n" -> 110
      [] c = "q" -> 113 [] c = "s" -> 115 [] c = "<U+00E9>" -> 233
      [] c = "<U+2713>" -> 10003

\* A str given character by character.
Str(chars) == [i \in 1..Len(chars) |-> Ord(chars[i])]

\* str.replace("\r\n", "\n")
RECURSIVE ReplaceCrLf(_)
ReplaceCrLf(text) ==
    IF text = <<>> THEN <<>>
    ELSE IF Len(text) >= 2 /\ text[1] = 13 /\ text[2] = 10
    THEN <<10>> \o ReplaceCrLf(SubSeq(text, 3, Len(text)))
    ELSE <<text[1]>> \o ReplaceCrLf(Tail(text))

\* str.replace("\r", "\n")
ReplaceCr(text) == [i \in 1..Len(text) |-> IF text[i] = 13 THEN 10 ELSE text[i]]

\* f.read() of a file opened in text mode with the default newline handling:
\* "\r\n" and "\r" arrive as "\n".
RECURSIVE TextModeRead(_)
TextModeRead(raw) ==
    IF raw = <<>> THEN <<>>
    ELSE IF raw[1] = 13
    THEN <<10>> \o TextModeRead(SubSeq(raw, IF Len(raw) >= 2 /\ raw[2] = 10 THEN 3 ELSE 2,
                                       Len(raw)))
    ELSE <<raw[1]>> \o TextModeRead(Tail(raw))

\* Variant of ReadUserData: only "\r\n" is replaced.
ReadUserDataCrLfOnly(user_data_file, data) ==
    IF user_data_file # <<>>
    THEN <<ReplaceCrLf(TextModeRead(user_data_file[1]))>>
    ELSE IF data # <<>> /\ data[1] # <<>>
    THEN <<ReplaceCrLf(data[1])>>
    ELSE <<>>

\* read_user_data (lines 30-56). user_data_file is <<>> when USER_DATA_FILE is
\* unset, empty or names no file, else <<the text of the file>>; data is
\* <<>> when USER_DATA is unset, else <<its text>>. The result is <<>> for
\* None, else <<the text with "\n" line endings>>. (data is the parameter
\* user_data.)
ReadUserData(user_data_file, data) ==
    IF user_data_file # <<>>
    THEN <<ReplaceCr(ReplaceCrLf(TextModeRead(user_data_file[1])))>>
    ELSE IF data # <<>> /\ data[1] # <<>>
    THEN <<ReplaceCr(ReplaceCrLf(data[1]))>>
    ELSE <<>>

\* The line ensure_shebang prepends.
DefaultShebang == Str(<<"#", "!", "/", "b", "i", "n", "/", "b", "a", "s", "h", "\n">>)

\* str.startswith
StartsWith(text, prefix) ==
    Len(text) >= Len(prefix) /\ SubSeq(text, 1, Len(prefix)) = prefix

\* ensure_shebang (lines 59-64)
EnsureShebang(data) ==
    IF ~StartsWith(data, Str(<<"#", "!">>)) THEN DefaultShebang \o data
    ELSE data

\* Lines 429-432: user_data_content, <<>> for None.
PrepareUserData(user_data_file, data) ==
    LET content == ReadUserData(user_data_file, data)
    IN  IF content # <<>> /\ content[1] # <<>> THEN <<EnsureShebang(content[1])>>
        ELSE content

\* base64.b64encode(bytes), as the characters of its ASCII result: three
\* bytes give four characters, and a last group of one or two bytes is
\* completed with padding.
RECURSIVE B64Encode(_)
B64Encode(bytes) ==
    IF bytes = <<>> THEN <<>>
    ELSE LET n == Len(bytes)
             b1 == bytes[1]
             b2 == IF n >= 2 THEN bytes[2] ELSE 0
             b3 == IF n >= 3 THEN bytes[3] ELSE 0
         IN  << B64Chars[(b1 \div 4) + 1],
                B64Chars[(b1 % 4) * 16 + (b2 \div 16) + 1],
                IF n >= 2 THEN B64Chars[(b2 % 16) * 4 + (b3 \div 64) + 1] ELSE B64Pad,
                IF n >= 3 THEN B64Chars[(b3 % 64) + 1] ELSE B64Pad >>
             \o B64Encode(SubSeq(bytes, 4, n))

\* Variant of EncodeUserData: the padding is left out.
EncodeUserDataUnpadded(data) ==
    SelectSeq(B64Encode(Utf8Encode(data)), LAMBDA c : c # B64Pad)

\* encode_user_data (lines 67-73)
EncodeUserData(data) == B64Encode(Utf8Encode(data))

\* Lines 476-478 and 559-561: user_data_b64, <<>> for None.
UserDataB64(content) ==
    IF content # <<>> /\ content[1] # <<>> THEN <<EncodeUserData(content[1])>>
    ELSE <<>>

\* An entry of the SupportedResource list of a DescribeAvailableResource
\* answer: a JSON object with the Value v ("" when it has none), or a JSON
\* string.
Supported(v) == [kind |-> "dict", Value |-> v]
SupportedText == [kind |-> "string", Value |-> ""]

\* An answer of `aliyun ecs DescribeAvailableResource`, by what
\* get_supported_disk_category reads of it:
\*   raised     "no", or the exception subprocess.run raised by itself
\*   rc         the exit code (check=True: CalledProcessError when not 0)
\*   seconds    the time the command takes to answer
\*   out        stdout: "badjson" (not JSON, also when empty) or "json"
\*   data       the JSON value: "dict" (an object), "list" (a list or a
\*              text that does not hold the text AvailableZones), "holdsKey"
\*              (a list or a text that holds it) or "number" (a number, or
\*              null)
\*   path       the path AvailableZones.AvailableZone[0].AvailableResources.
\*              AvailableResource[0].SupportedResources.SupportedResource of
\*              an object: "absent" (a key of it is missing, or a list on it
\*              is empty or is an object), "null" (a null, a number or a
\*              text holding the next key stands on it, or a null or a
\*              number at its end) or "list" (a list is at its end)
\*   supported  the list at the end of the path, <<>> when there is none
Resource(x, rc, secs, o, d, path, supported) ==
    [raised |-> x, rc |-> rc, seconds |-> secs, out |-> o, data |-> d,
     path |-> path, supported |-> supported]

ResourceAnswers ==
    { Resource("no", 0, 1, "json", "dict", "absent", <<>>),
      Resource("no", 0, 1, "json", "dict", "null", <<>>),
      Resource("no", 0, 1, "json", "dict", "list", <<Supported("cloud_ssd")>>),
      Resource("no", 0, 1, "json", "dict", "list",
               <<Supported("cloud_auto"), Supported("cloud_efficiency"), Supported("")>>),
      Resource("no", 0, 1, "json", "dict", "list",
               <<Supported("cloud_efficiency"), Supported("cloud_ssd")>>),
      Resource("no", 0, 1, "json", "dict", "list", <<Supported("cloud_auto")>>),
      Resource("no", 0, 1, "json", "dict", "list", <<>>),
      Resource("no", 0, 1, "json", "dict", "list", <<SupportedText>>),
      Resource("no", 0, 1, "json", "list", "absent", <<>>),
      Resource("no", 0, 1, "json", "holdsKey", "absent", <<>>),
      Resource("no", 0, 1, "json", "number", "absent", <<>>),
      Resource("no", 0, 1, "badjson", "dict", "absent", <<>>),
      Resource("no", 1, 1, "json", "dict", "list", <<Supported("cloud_ssd")>>),
      Resource("no", 0, 3600, "json", "dict", "list", <<Supported("cloud_ssd")>>),
      Resource("SubprocessError", 0, 1, "badjson", "dict", "absent", <<>>),
      Resource("OSError", 0, 1, "badjson", "dict", "absent", <<>>),
      Resource("UnicodeDecodeError", 0, 1, "badjson", "dict", "absent", <<>>) }

\* The timeout get_supported_disk_category passes to subprocess.run (line 243).
ResourceTimeout == <<30>>

\* disk_categories of get_supported_disk_category (line 226).
DetectCategories == <<"cloud_essd", "cloud_ssd", "cloud_efficiency">>

\* get_supported_disk_category without a zone (lines 221-285): the first
\* category of its priority list that the answer lists, "cloud_essd" when
\* the query fails or lists none, Crash when the exception is not one it
\* catches (OSError from subprocess.run, UnicodeDecodeError from it on
\* output that is not UTF-8, TypeError on a JSON number, on a
\* list or text holding the text AvailableZones and on a null or a number
\* on the path, AttributeError on a JSON string in the list).
GetSupportedDiskCategory(res) ==
    IF res.raised = "OSError" THEN Crash
    ELSE IF res.raised = "SubprocessError" THEN "cloud_essd"
    ELSE IF TimeoutExpired(ResourceTimeout, res.seconds) THEN "cloud_essd"
    ELSE IF res.raised = "UnicodeDecodeError" THEN Crash
    ELSE IF res.rc # 0 THEN "cloud_essd"
    ELSE IF res.out = "badjson" THEN "cloud_essd"
    ELSE IF res.data = "number" THEN Crash
    ELSE IF res.data = "holdsKey" THEN Crash
    ELSE IF res.data = "list" THEN "cloud_essd"
    ELSE IF res.path = "null" THEN Crash
    ELSE IF res.path = "absent" THEN "cloud_essd"
    ELSE LET supported == res.supported
             supported_categories ==
                 {supported[i].Value : i \in {j \in 1..Len(supported) : supported[j].Value # ""}}
             found == {k \in 1..Len(DetectCategories) :
                          DetectCategories[k] \in supported_categories}
         IN  IF \E i \in 1..Len(supported) : supported[i].kind = "string" THEN Crash
             ELSE IF found = {} THEN "cloud_essd"
             ELSE DetectCategories[CHOOSE k \in found : \A l \in found : k <= l]

\* What create_instance leaves when get_supported_disk_category raised: no
\* command is built and the exception goes up to main().
NoCommand == [raised |-> Crash]

\* The RunInstances command create_instance builds (lines 303-354), by its
\* parameters that vary; auto_detect says that get_supported_disk_category
\* was called because no disk category was passed, resource is the answer
\* DescribeAvailableResource gives in that case, UserData is <<>> when
\* the command has no --UserData, else <<the text passed with it>>, and b64 is
\* the user_data_b64 parameter (<<>> for None).
CreateInstance(image, instance_type, vswitch_id, spot_strategy, spot_price_limit, system_disk_category, b64, resource) ==
    LET priced == spot_strategy = "SpotWithPriceLimit" /\ Truthy(spot_price_limit)
        detected == IF Truthy(system_disk_category) THEN system_disk_category
                    ELSE GetSupportedDiskCategory(resource)
    IN  IF detected = Crash THEN NoCommand ELSE
        [ImageId |-> image,
         InstanceType |-> instance_type,
         VSwitchId |-> vswitch_id,
         SystemDiskCategory |-> detected,
         auto_detect |-> ~Truthy(system_disk_category),
         SpotStrategy |-> IF priced THEN "SpotWithPriceLimit" ELSE "SpotAsPriceGo",
         SpotPriceLimit |-> IF priced THEN spot_price_limit ELSE None,
         UserData |-> IF b64 # <<>> /\ b64[1] # <<>> THEN b64 ELSE <<>>]

\* The timeout create_instance passes to subprocess.run (line 357): none.
RunTimeout == <<>>

\* subprocess.run(..., timeout=t) on a process that never exits: without a
\* timeout the call never returns.
Blocks(timeout, res) == timeout = <<>> /\ res.hangs

\* subprocess.run of create_instance (lines 356-360) on the command built:
\* "TypeError" when an argument of the command is no text or holds a NUL
\* character (raised before a process is started), "blocked" when the
\* process never exits,
\* "UnicodeDecodeError" when its output is not UTF-8, else "returned":
\* create_instance returns (exit_code, response). Neither exception is one
\* create_instance catches.
RunInstances(cmd, answer) ==
    IF cmd.ImageId = NotText THEN "TypeError"
    ELSE IF Blocks(RunTimeout, answer) THEN "blocked"
    ELSE IF ~answer.decodes THEN "UnicodeDecodeError"
    ELSE "returned"

\* Variant of SpotStrategyFor: the market-price strategy whatever the ceiling.
SpotStrategyForMarketOnly(spot_price_limit) == "SpotAsPriceGo"

\* spot_strategy, lines 481 and 564.
SpotStrategyFor(spot_price_limit) ==
    IF Truthy(spot_price_limit) THEN "SpotWithPriceLimit" ELSE "SpotAsPriceGo"

-----------------------------------------------------------------------------
(* What the properties observe of an answer of the creation call *)

\* The answer's text contains InvalidSystemDiskCategory or, in any case of
\* letters, "not support".
UnsupportedDiskText(response) ==
    response.marker \in {"InvalidSystemDiskCategory", "not support",
                         "Not Support", "NOT SUPPORTED"}

\* Exit code 0 and an instance identifier can be extracted from the answer.
Accepted(exit_code, response) ==
    /\ exit_code = 0
    /\ ExtractInstanceId(response) \notin {None, "", "null"}

-----------------------------------------------------------------------------
(* Provisioner: the environment a run starts in *)

\* USER_DATA_FILE is <<>> when the variable is unset, empty or names no
\* file, else <<the text of the file it names>>; USER_DATA is <<>> when unset,
\* else <<its text>>.
ProvEnv(set, fam, img, typ, vsw, lim, cf) ==
    [set |-> set, ALIYUN_IMAGE_FAMILY |-> fam, ALIYUN_IMAGE_ID |-> img,
     INSTANCE_TYPE |-> typ, ALIYUN_VSWITCH_ID |-> vsw, SPOT_PRICE_LIMIT |-> lim,
     CANDIDATES_FILE |-> cf, USER_DATA_FILE |-> <<>>, USER_DATA |-> <<>>]

\* The same environment with a boot script.
WithUserData(e, user_data_file, data) ==
    [e EXCEPT !.USER_DATA_FILE = user_data_file, !.USER_DATA = data]

\* Lines a candidate file may hold.
CandLines ==
    { <<"ecs.c7.2xlarge", "|", "cn-hangzhou-k", "|", "vsw-k", "|", "0.4800", "|", "8", "\n">>,
      <<"ecs.g7.xlarge", "|", "cn-hangzhou-j", "|", "vsw-j", "|", "|", "\n">>,
      <<" ", "ecs.c7.large", "|", "cn-hangzhou-b", "|", "|", "0.1200", "\n">>,
      <<"ecs.c7.large", "|", "cn-hangzhou-b", "|", "vsw-b", "\n">>,
      <<"\n">>,
      <<"ecs.r7.large", "|", "cn-hangzhou-h", "|", "vsw-h", "|", "0.3000", "|", "x", "\n">> }

RECURSIVE SeqsUpTo(_, _)
SeqsUpTo(S, n) ==
    IF n = 0 THEN {<<>>}
    ELSE LET shorter == SeqsUpTo(S, n - 1)
         IN  shorter \cup {Append(q, x) : q \in shorter, x \in S}

CandFiles == SeqsUpTo(CandLines, MaxLines)

AllRequiredProv == RequiredSet(RequiredProv)

\* Runs that end at a missing required variable.
ProvEnvsMissing ==
    { ProvEnv(s, None, "m-direct", "ecs.c7.large", "vsw-0", None, None) :
        s \in (SUBSET AllRequiredProv) \ {AllRequiredProv} }

\* Runs without a usable candidate file.
ProvEnvsSingle ==
    { ProvEnv(AllRequiredProv, f, i, t, v, l, c) :
        f \in {None, "", "acs:ubuntu_24_04_x64"}, i \in {None, "m-direct"},
        t \in {None, "ecs.c7.large"}, v \in {None, "vsw-0"},
        l \in {None, "", "0.5000"}, c \in {None, "/tmp/cands.txt"} }

\* Runs with a candidate file.
ProvEnvsMulti ==
    { ProvEnv(AllRequiredProv, fi[1], fi[2], fi[3], fi[4], None, "/tmp/cands.txt") :
        fi \in { <<None, "m-direct", None, None>>,
                 <<"acs:ubuntu_24_04_x64", None, "ecs.c7.large", "vsw-0">>,
                 <<None, None, None, "vsw-0">> } }

\* Boot scripts, as <<USER_DATA_FILE, USER_DATA>>: with "\r\n" and a lone
\* "\r", with and without an interpreter line, with characters of two and
\* three bytes, empty, and a file next to the variable.
BootScripts ==
    { <<<<>>, <<Str(<<"l", "s", "\r", "\n", "q", "\r">>)>>>>,
      <<<<>>, <<Str(<<"#", "!", "/", "b", "i", "n", "/", "s", "h", "\n", "l", "s", "\n">>)>>>>,
      <<<<>>, <<Str(<<"#", "!", "/", "b", "i", "n", "/", "b", "a", "s", "h", "\n", "l", "s">>)>>>>,
      <<<<>>, <<Str(<<"#", "\r", "!", "l", "s">>)>>>>,
      <<<<>>, <<Str(<<"<U+00E9>", "<U+2713>", "\n">>)>>>>,
      <<<<>>, <<Str(<<>>)>>>>,
      <<<<Str(<<"#", "!", "\r", "\n">>)>>, <<Str(<<"l", "s">>)>>>>,
      <<<<Str(<<>>)>>, <<Str(<<"l", "s">>)>>>>,
      <<<<Str(<<"l", "s", "\r">>)>>, <<>>>> }

\* Single-attempt runs with a boot script.
ProvEnvsBootSingle ==
    { WithUserData(ProvEnv(AllRequiredProv, None, "m-direct", "ecs.c7.large", "vsw-0",
                           "0.5000", None), b[1], b[2]) : b \in BootScripts }

\* The candidate file of the multi-candidate runs with a boot script.
BootCandFile ==
    << <<"ecs.c7.2xlarge", "|", "cn-hangzhou-k", "|", "vsw-k", "|", "0.4800", "|", "8", "\n">> >>

\* Multi-candidate runs with a boot script.
ProvEnvsBootMulti ==
    { WithUserData(ProvEnv(AllRequiredProv, None, "m-direct", None, None, None,
                           "/tmp/cands.txt"), b[1], b[2]) :
        b \in { c \in BootScripts : c[1] = <<>> /\ Len(c[2][1]) \in {0, 6} } }

\* The Selector's variables in a run of the Provisioner.
SelIdle ==
    /\ params = <<>>
    /\ query_strategies = <<>>
    /\ stratIdx = 0
    /\ queries = <<>>
    /\ lastAdv = <<>>
    /\ json_result = <<>>
    /\ written = <<>>

\* The Writer's variables in a run of another script.
WrIdle ==
    /\ user_data_b64 = <<>>
    /\ stdin_read = FALSE
    /\ user_data = <<>>
    /\ output = <<>>
    /\ report = <<>>

ProvInit ==
    /\ prog = "provisioner"
    /\ pc = "start"
    /\ \/ env \in ProvEnvsMissing \cup ProvEnvsSingle /\ file = <<>>
       \/ env \in ProvEnvsMulti /\ file \in {<<ls>> : ls \in CandFiles}
       \/ env \in ProvEnvsBootSingle /\ file = <<>>
       \/ env \in ProvEnvsBootMulti /\ file = <<BootCandFile>>
    /\ lookup = <<>>
    /\ image_id = None
    /\ candidates = <<>>
    /\ candIdx = 0
    /\ diskIdx = 0
    /\ calls = <<>>
    /\ ext = <<>>
    /\ last = <<>>
    /\ otherFail = {}
    /\ last_error = <<>>
    /\ user_data_content = <<>>
    /\ SelIdle
    /\ WrIdle
    /\ stdout = <<>>
    /\ errMsg = <<>>
    /\ exitStatus = -1

-----------------------------------------------------------------------------
(* Ending a run *)

Err(kind, var, count, text) == [kind |-> kind, var |-> var, count |-> count, text |-> text]

\* error_exit(message): the message goes to stderr, the status is 1.
ErrorExit(msg) ==
    /\ pc' = "done"
    /\ errMsg' = <<msg>>
    /\ exitStatus' = 1

\* An uncaught exception: traceback on stderr, status 1.
Traceback == ErrorExit(Err("traceback", None, 0, <<>>))

\* A call of an external command that never returns: the run waits for good.
Blocked == pc' = "blocked" /\ UNCHANGED <<errMsg, exitStatus>>

\* Variant of SuccessExit: the identifier goes to stderr.
SuccessExitSilent(instance_id) ==
    /\ pc' = "done"
    /\ stdout' = stdout
    /\ exitStatus' = 0

\* print(instance_id); sys.exit(0)
SuccessExit(instance_id) ==
    /\ pc' = "done"
    /\ stdout' = Append(stdout, instance_id)
    /\ exitStatus' = 0

-----------------------------------------------------------------------------
(* Provisioner: main() *)

\* Lines 387-401: the required variables.
ProvReadEnv ==
    /\ prog = "provisioner" /\ pc = "start"
    /\ LET missing == FirstMissing(RequiredProv, env.set)
       IN  IF missing # None
           THEN ErrorExit(Err("required", missing, 0, <<>>))
           ELSE pc' = "image" /\ UNCHANGED <<errMsg, exitStatus>>
    /\ UNCHANGED selVars
    /\ UNCHANGED wrVars
    /\ UNCHANGED user_data_content
    /\ UNCHANGED <<prog, env, file, lookup, image_id, candidates, candIdx, diskIdx, calls,
                   ext, last, otherFail, last_error, stdout>>

\* Line 404: get_image_id, with the family lookup when a family is configured.
ProvGetImage ==
    /\ prog = "provisioner" /\ pc = "image"
    /\ \E res \in LookupResults :
         LET lookedUp == Truthy(env.ALIYUN_IMAGE_FAMILY)
             id == GetImageId(env, IF lookedUp THEN GetImageFromFamily(res) ELSE None)
         IN  /\ lookedUp \/ res = CHOOSE r \in LookupResults : TRUE
             /\ ext' = IF lookedUp THEN Append(ext, "DescribeImageFromFamily") ELSE ext
             /\ lookup' = IF lookedUp THEN <<res>> ELSE <<>>
             /\ IF id = Crash THEN Traceback /\ UNCHANGED image_id
                ELSE IF id = None
                THEN ErrorExit(Err("image", None, 0, <<>>)) /\ UNCHANGED image_id
                ELSE /\ image_id' = id
                     /\ pc' = "cli"
                     /\ UNCHANGED <<errMsg, exitStatus>>
    /\ UNCHANGED selVars
    /\ UNCHANGED wrVars
    /\ UNCHANGED user_data_content
    /\ UNCHANGED <<prog, env, file, candidates, candIdx, diskIdx, calls,
                   last, otherFail, last_error, stdout>>

\* What subprocess.run does with `aliyun --version` and with `aliyun
\* configure get`, by the except clauses of lines 413 and 423: "ok" (the
\* command ran; for --version, with exit code 0), "failed" (SubprocessError,
\* which is also a non-zero exit code under check=True, or
\* FileNotFoundError), "denied" (another OSError: the file cannot be
\* executed) or "hangs" (the command never exits; neither call has a
\* timeout).
CliOutcomes == {"ok", "failed", "denied", "hangs"}

\* Lines 410-432: `aliyun --version` must run, `aliyun configure get` may
\* fail; an OSError other than FileNotFoundError is caught by neither.
ProvVerifyCli ==
    /\ prog = "provisioner" /\ pc = "cli"
    /\ \E version \in CliOutcomes, configure \in CliOutcomes :
         /\ version # "ok" => configure = "ok"
         /\ IF version = "failed"
            THEN /\ ext' = Append(ext, "aliyun --version")
                 /\ UNCHANGED user_data_content
                 /\ ErrorExit(Err("cli", None, 0, <<>>))
            ELSE IF version = "denied"
            THEN /\ ext' = Append(ext, "aliyun --version")
                 /\ UNCHANGED user_data_content
                 /\ Traceback
            ELSE IF version = "hangs"
            THEN /\ ext' = Append(ext, "aliyun --version")
                 /\ UNCHANGED user_data_content
                 /\ Blocked
            ELSE IF configure = "denied"
            THEN /\ ext' = ext \o <<"aliyun --version", "aliyun configure get">>
                 /\ UNCHANGED user_data_content
                 /\ Traceback
            ELSE IF configure = "hangs"
            THEN /\ ext' = ext \o <<"aliyun --version", "aliyun configure get">>
                 /\ UNCHANGED user_data_content
                 /\ Blocked
            ELSE /\ ext' = ext \o <<"aliyun --version", "aliyun configure get">>
                 /\ user_data_content' = PrepareUserData(env.USER_DATA_FILE, env.USER_DATA)
                 /\ pc' = "mode"
                 /\ UNCHANGED <<errMsg, exitStatus>>
    /\ UNCHANGED selVars
    /\ UNCHANGED wrVars
    /\ UNCHANGED <<prog, env, file, lookup, image_id, candidates, candIdx, diskIdx, calls,
                   last, otherFail, last_error, stdout>>

\* Variant of ProvSelectMode: a candidate file without a usable candidate
\* leaves the run to the configured instance type and subnet.
ProvSelectModeFallsBack ==
    /\ prog = "provisioner" /\ pc = "mode"
    /\ IF /\ Truthy(env.CANDIDATES_FILE) /\ file # <<>>
          /\ (ParseRaises(file[1]) \/
                 \E cands \in {ParseCandidatesFile(file[1])} :
                    \E i \in 1..Len(cands) : Truthy(cands[i].vswitch_id))
       THEN IF ParseRaises(file[1])
            THEN Traceback /\ UNCHANGED <<candidates, candIdx, diskIdx>>
            ELSE /\ candidates' = ParseCandidatesFile(file[1])
                 /\ candIdx' = 1
                 /\ diskIdx' = 1
                 /\ pc' = "multi"
                 /\ UNCHANGED <<errMsg, exitStatus>>
       ELSE /\ UNCHANGED <<candidates, candIdx>>
            /\ IF ~Truthy(env.INSTANCE_TYPE)
               THEN ErrorExit(Err("required", "INSTANCE_TYPE", 0, <<>>)) /\ UNCHANGED diskIdx
               ELSE IF ~Truthy(env.ALIYUN_VSWITCH_ID)
               THEN ErrorExit(Err("required", "ALIYUN_VSWITCH_ID", 0, <<>>)) /\ UNCHANGED diskIdx
               ELSE /\ diskIdx' = 1
                    /\ pc' = "single"
                    /\ UNCHANGED <<errMsg, exitStatus>>
    /\ UNCHANGED selVars
    /\ UNCHANGED wrVars
    /\ UNCHANGED user_data_content
    /\ UNCHANGED <<prog, env, file, lookup, image_id, calls, ext, last, otherFail,
                   last_error, stdout>>

\* Lines 449-452 and 550-556: the mode, and what each mode needs.
ProvSelectMode ==
    /\ prog = "provisioner" /\ pc = "mode"
    /\ IF Truthy(env.CANDIDATES_FILE) /\ file # <<>>
       THEN IF ParseRaises(file[1])
            THEN Traceback /\ UNCHANGED <<candidates, candIdx, diskIdx>>
            ELSE /\ candidates' = ParseCandidatesFile(file[1])
                 /\ candIdx' = 1
                 /\ diskIdx' = 1
                 /\ pc' = "multi"
                 /\ UNCHANGED <<errMsg, exitStatus>>
       ELSE /\ UNCHANGED <<candidates, candIdx>>
            /\ IF ~Truthy(env.INSTANCE_TYPE)
               THEN ErrorExit(Err("required", "INSTANCE_TYPE", 0, <<>>)) /\ UNCHANGED diskIdx
               ELSE IF ~Truthy(env.ALIYUN_VSWITCH_ID)
               THEN ErrorExit(Err("required", "ALIYUN_VSWITCH_ID", 0, <<>>)) /\ UNCHANGED diskIdx
               ELSE /\ diskIdx' = 1
                    /\ pc' = "single"
                    /\ UNCHANGED <<errMsg, exitStatus>>
    /\ UNCHANGED selVars
    /\ UNCHANGED wrVars
    /\ UNCHANGED user_data_content
    /\ UNCHANGED <<prog, env, file, lookup, image_id, calls, ext, last, otherFail,
                   last_error, stdout>>

\* The answers bound when the call they belong to is not made: the
\* DescribeAvailableResource answer of a call with an explicit disk category,
\* the RunInstances answer of a command that was not built.
NoResourceAnswer == CHOOSE r \in ResourceAnswers : TRUE
NoAnswer == CHOOSE a \in Answers : TRUE

\* What issuing a creation command adds to the external processes started.
Started(cmd) ==
    IF cmd.auto_detect THEN <<"DescribeAvailableResource", "RunInstances">>
    ELSE <<"RunInstances">>

\* The same when subprocess.run raised before it started RunInstances.
Detected(cmd) ==
    IF cmd.auto_detect THEN <<"DescribeAvailableResource">> ELSE <<>>

\* Lines 463-468: a candidate without a subnet is skipped.
ProvSkipCandidate ==
    /\ prog = "provisioner" /\ pc = "multi"
    /\ candIdx <= Len(candidates)
    /\ ~Truthy(candidates[candIdx].vswitch_id)
    /\ candIdx' = candIdx + 1
    /\ UNCHANGED selVars
    /\ UNCHANGED wrVars
    /\ UNCHANGED user_data_content
    /\ UNCHANGED <<prog, pc, env, file, lookup, image_id, candidates, diskIdx, calls,
                   ext, last, otherFail, last_error, stdout, errMsg, exitStatus>>

\* Lines 470-546: one turn of the disk-category loop for the candidate at
\* candIdx: the creation call and what main() does with its answer. An
\* exception out of create_instance ends the run in a traceback: before a
\* process is started when the disk-category detection raised or the command
\* cannot be started, after the creation call was started when its output is
\* not UTF-8. A RunInstances process that never exits leaves the run blocked.
ProvMultiAttempt ==
    /\ prog = "provisioner" /\ pc = "multi"
    /\ candIdx <= Len(candidates)
    /\ Truthy(candidates[candIdx].vswitch_id)
    /\ \E answer \in Answers, resource \in ResourceAnswers :
         LET exit_code == answer.exit_code
             response == answer.response
             cand == candidates[candIdx]
             cmd == CreateInstance(image_id, cand.instance_type, cand.vswitch_id,
                                   SpotStrategyFor(cand.spot_price_limit),
                                   cand.spot_price_limit, DiskCategories[diskIdx],
                                   UserDataB64(user_data_content), resource)
             outcome == MultiOutcome(exit_code, response)
         IN  /\ Truthy(DiskCategories[diskIdx]) => resource = NoResourceAnswer
             /\ IF cmd = NoCommand
                THEN /\ answer = NoAnswer
                     /\ ext' = Append(ext, "DescribeAvailableResource")
                     /\ Traceback
                     /\ UNCHANGED <<calls, last, otherFail, candIdx, diskIdx, stdout>>
                ELSE IF RunInstances(cmd, answer) = "TypeError"
                THEN /\ answer = NoAnswer
                     /\ ext' = ext \o Detected(cmd)
                     /\ Traceback
                     /\ UNCHANGED <<calls, last, otherFail, candIdx, diskIdx, stdout>>
                ELSE IF RunInstances(cmd, answer) # "returned"
                THEN /\ calls' = Append(calls, [attempt |-> candIdx, cmd |-> cmd])
                     /\ ext' = ext \o Started(cmd)
                     /\ last' = <<answer>>
                     /\ IF RunInstances(cmd, answer) = "blocked" THEN Blocked ELSE Traceback
                     /\ UNCHANGED <<otherFail, candIdx, diskIdx, stdout>>
                ELSE /\ calls' = Append(calls, [attempt |-> candIdx, cmd |-> cmd])
                     /\ ext' = ext \o Started(cmd)
                     /\ last' = <<answer>>
                     /\ otherFail' =
                            IF ~Accepted(exit_code, response) /\ ~UnsupportedDiskText(response)
                            THEN otherFail \cup {candIdx} ELSE otherFail
                     /\ IF outcome = "success"
                        THEN /\ SuccessExit(ExtractInstanceId(response))
                             /\ UNCHANGED <<candIdx, diskIdx, errMsg>>
                        ELSE /\ IF outcome = "next_disk" /\ diskIdx < Len(DiskCategories)
                                THEN diskIdx' = diskIdx + 1 /\ UNCHANGED candIdx
                                ELSE diskIdx' = 1 /\ candIdx' = candIdx + 1
                             /\ UNCHANGED <<pc, stdout, errMsg, exitStatus>>
    /\ UNCHANGED selVars
    /\ UNCHANGED wrVars
    /\ UNCHANGED user_data_content
    /\ UNCHANGED <<prog, env, file, lookup, image_id, candidates, last_error>>

\* candidate_count, line 451.
candidate_count == Len(candidates)

\* Line 549: every candidate has been tried.
ProvMultiExhausted ==
    /\ prog = "provisioner" /\ pc = "multi"
    /\ candIdx > Len(candidates)
    /\ ErrorExit(Err("exhausted", None, candidate_count, <<>>))
    /\ UNCHANGED selVars
    /\ UNCHANGED wrVars
    /\ UNCHANGED user_data_content
    /\ UNCHANGED <<prog, env, file, lookup, image_id, candidates, candIdx, diskIdx, calls,
                   ext, last, otherFail, last_error, stdout>>

\* Lines 578-628: one turn of the disk-category loop of single-attempt mode,
\* with the same endings in an exception out of create_instance.
ProvSingleAttempt ==
    /\ prog = "provisioner" /\ pc = "single"
    /\ \E answer \in Answers, resource \in ResourceAnswers :
         LET exit_code == answer.exit_code
             response == answer.response
             cmd == CreateInstance(image_id, env.INSTANCE_TYPE, env.ALIYUN_VSWITCH_ID,
                                   SpotStrategyFor(env.SPOT_PRICE_LIMIT),
                                   env.SPOT_PRICE_LIMIT, DiskCategories[diskIdx],
                                   UserDataB64(user_data_content), resource)
             outcome == SingleOutcome(exit_code, response)
         IN  /\ Truthy(DiskCategories[diskIdx]) => resource = NoResourceAnswer
             /\ IF cmd = NoCommand
                THEN /\ answer = NoAnswer
                     /\ ext' = Append(ext, "DescribeAvailableResource")
                     /\ Traceback
                     /\ UNCHANGED <<calls, last, last_error, diskIdx, stdout>>
                ELSE IF RunInstances(cmd, answer) = "TypeError"
                THEN /\ answer = NoAnswer
                     /\ ext' = ext \o Detected(cmd)
                     /\ Traceback
                     /\ UNCHANGED <<calls, last, last_error, diskIdx, stdout>>
                ELSE IF RunInstances(cmd, answer) # "returned"
                THEN /\ calls' = Append(calls, [attempt |-> candIdx, cmd |-> cmd])
                     /\ ext' = ext \o Started(cmd)
                     /\ last' = <<answer>>
                     /\ IF RunInstances(cmd, answer) = "blocked" THEN Blocked ELSE Traceback
                     /\ UNCHANGED <<last_error, diskIdx, stdout>>
                ELSE /\ calls' = Append(calls, [attempt |-> candIdx, cmd |-> cmd])
                     /\ ext' = ext \o Started(cmd)
                     /\ last' = <<answer>>
                     /\ IF outcome = "success"
                        THEN /\ SuccessExit(ExtractInstanceId(response))
                             /\ UNCHANGED <<diskIdx, last_error, errMsg>>
                        ELSE /\ last_error' = <<response>>
                             /\ IF outcome = "next_disk" /\ diskIdx < Len(DiskCategories)
                                THEN diskIdx' = diskIdx + 1 /\ UNCHANGED pc
                                ELSE pc' = "single_end" /\ UNCHANGED diskIdx
                             /\ UNCHANGED <<stdout, errMsg, exitStatus>>
    /\ UNCHANGED selVars
    /\ UNCHANGED wrVars
    /\ UNCHANGED user_data_content
    /\ UNCHANGED <<prog, env, file, lookup, image_id, candidates, candIdx, otherFail>>

\* Lines 631-634: no disk category gave an instance.
ProvSingleFailed ==
    /\ prog = "provisioner" /\ pc = "single_end"
    /\ ErrorExit(Err("all_disks", None, 0, last_error))
    /\ UNCHANGED selVars
    /\ UNCHANGED wrVars
    /\ UNCHANGED user_data_content
    /\ UNCHANGED <<prog, env, file, lookup, image_id, candidates, candIdx, diskIdx, calls,
                   ext, last, otherFail, last_error, stdout>>

ProvNext ==
    \/ ProvReadEnv
    \/ ProvGetImage
    \/ ProvVerifyCli
    \/ ProvSelectMode
    \/ ProvSkipCandidate
    \/ ProvMultiAttempt
    \/ ProvMultiExhausted
    \/ ProvSingleAttempt
    \/ ProvSingleFailed

-----------------------------------------------------------------------------
(* Selector: data *)

\* The variables select_instance.py's main() reads with get_env_var.
RequiredSel == <<"ALIYUN_ACCESS_KEY_ID", "ALIYUN_ACCESS_KEY_SECRET", "ALIYUN_REGION_ID">>

\* The text of a numeric environment variable: not set, blank after
\* strip(), not a number, or the decimal text of n.
Unset == [text |-> "unset", n |-> 0]
Blank == [text |-> "blank", n |-> 0]
NotANumber == [text |-> "bad", n |-> 0]
Num(n) == [text |-> "num", n |-> n]

\* os.environ.get(NAME, "").strip() is empty.
IsEmptyText(v) == v.text \in {"unset", "blank"}

\* A search strategy (strat_cpu, strat_mem, exact_match, desc).
Strategy(c, m, x, d) == [cpu |-> c, mem |-> m, exact |-> x, desc |-> d]

\* Variant of QueryStrategies: the 1:2 strategy is left out already at 32 cores.
QueryStrategiesBelow32(arch, min_cpu, max_cpu) ==
    IF arch = "amd64"
    THEN <<Strategy(min_cpu, min_cpu, TRUE, "1:1")>>
         \o (IF min_cpu < 32 THEN <<Strategy(min_cpu, min_cpu * 2, TRUE, "1:2")>> ELSE <<>>)
         \o (IF min_cpu < 16 THEN <<Strategy(16, 16, TRUE, "1:1")>> ELSE <<>>)
         \o (IF min_cpu < 16 THEN <<Strategy(16, 32, TRUE, "1:2")>> ELSE <<>>)
         \o <<Strategy(min_cpu, max_cpu, FALSE, "range")>>
    ELSE <<Strategy(min_cpu, min_cpu * 2, TRUE, "1:2"),
           Strategy(min_cpu, max_cpu, FALSE, "range")>>

\* query_strategies, lines 265-285.
QueryStrategies(arch, min_cpu, max_cpu) ==
    IF arch = "amd64"
    THEN <<Strategy(min_cpu, min_cpu, TRUE, "1:1")>>
         \o (IF min_cpu <= 32 THEN <<Strategy(min_cpu, min_cpu * 2, TRUE, "1:2")>> ELSE <<>>)
         \o (IF min_cpu < 16 THEN <<Strategy(16, 16, TRUE, "1:1")>> ELSE <<>>)
         \o (IF min_cpu < 16 THEN <<Strategy(16, 32, TRUE, "1:2")>> ELSE <<>>)
         \o <<Strategy(min_cpu, max_cpu, FALSE, "range")>>
    ELSE <<Strategy(min_cpu, min_cpu * 2, TRUE, "1:2"),
           Strategy(min_cpu, max_cpu, FALSE, "range")>>

\* Variant of QueryCommand: an exact-match strategy asks for CPU counts up to
\* the configured maximum.
QueryCommandUpToMax(st, p) ==
    [mincpu |-> st.cpu,
     maxcpu |-> p.max_cpu,
     minmem |-> IF st.exact THEN st.mem ELSE p.min_mem,
     maxmem |-> IF ~st.exact THEN p.max_mem ELSE st.mem,
     limit |-> 5,
     arch |-> p.arch_param]

\* The advisor command line of one strategy: the arguments main() passes
\* (lines 305-316) as query_spot_instances puts them on the command line
\* (lines 70-82).
QueryCommand(st, p) ==
    LET q_min_cpu == st.cpu
        q_max_cpu == IF ~st.exact THEN p.max_cpu ELSE st.cpu
        q_min_mem == IF st.exact THEN st.mem ELSE p.min_mem
        q_max_mem == IF ~st.exact THEN p.max_mem ELSE st.mem
    IN  [mincpu |-> q_min_cpu,
         maxcpu |-> IF ~st.exact THEN q_max_cpu ELSE q_min_cpu,
         minmem |-> q_min_mem,
         maxmem |-> IF ~st.exact THEN q_max_mem ELSE q_min_mem,
         limit |-> 5,
         arch |-> p.arch_param]

\* An offer of the advisor, by the fields filter_instances reads.
Offer(t, z, p, c, m) ==
    [instance_type |-> t, zone_id |-> z, price_per_core |-> p, cpu_cores |-> c,
     memory_size |-> m]

\* An offer with the advisor's own keys, without a memory size.
Listing(t, z, p, c) ==
    [instanceTypeId |-> t, zoneId |-> z, pricePerCore |-> p, cpuCoreCount |-> c]

\* An offer without a CPU count and a memory size.
Bare(t, z, p) == [InstanceType |-> t, ZoneId |-> z, Price |-> p]

\* Lists of offers the advisor may print; None is a JSON null.
OfferLists ==
    { <<Offer("ecs.c7.2xlarge", "cn-hangzhou-k", "0.0500", "8", "16")>>,
      <<Offer("ecs.c7.xlarge", "cn-hangzhou-k", "0.0400", "4", "8"),
        Offer("ecs.g7.4xlarge", "cn-hangzhou-j", "0.0600", "16", "64")>>,
      \* offers without a price, a zone or a type, then one without a CPU count
      << [instanceTypeId |-> "ecs.g7.4xlarge", zoneId |-> "cn-hangzhou-k", cpuCoreCount |-> "16"],
         [instanceTypeId |-> "ecs.g7.4xlarge", zoneId |-> None, zone_id |-> "cn-hangzhou-k",
          pricePerCore |-> "0.0500"],
         Offer("", "cn-hangzhou-k", "0.0500", "16", "64"),
         Bare("ecs.g7.16xlarge", "cn-hangzhou-j", "0.0500") >>,
      \* type names no CPU count can be derived from, a CPU count that is not
      \* an integer, a memory size with a fraction
      << Bare("ecs.c7.small", "cn-hangzhou-k", "0.0400"),
         Bare("ecs.c7-2xlarge", "cn-hangzhou-k", "0.0400"),
         Bare("ecs.c7.2XLARGE", "cn-hangzhou-k", "0.0400"),
         [instanceTypeId |-> "ecs.g7.4xlarge", zoneId |-> "cn-hangzhou-k",
          pricePerCore |-> "0.0500", cpuCoreCount |-> "8.0", memorySize |-> "64.5"] >>,
      \* small types, and an offer with too little memory before one with enough
      << Bare("ecs.c7.large", "cn-hangzhou-k", "0.0400"),
         Bare("ecs.t6.medium", "cn-hangzhou-k", "0.0400"),
         Bare("ecs.c7.xlarge", "cn-hangzhou-j", "0.0400"),
         Offer("ecs.g7.16xlarge", "cn-hangzhou-j", "0.0600", "64", "8"),
         Offer("ecs.g7.16xlarge", "cn-hangzhou-j", "0.0500", "64", "64") >>,
      \* prices that are not a number, zero, below zero, and below the
      \* fourth decimal, and the price below zero with another CPU count
      << Listing("ecs.g7.16xlarge", "cn-hangzhou-k", "abc", "64"),
         Listing("ecs.g7.16xlarge", "cn-hangzhou-j", "0", "64"),
         Listing("ecs.g7.16xlarge", "cn-hangzhou-j", "-0.1", "64"),
         Listing("ecs.g7.16xlarge", "cn-hangzhou-j", "0.00001", "64"),
         Listing("ecs.g7.16xlarge", "cn-hangzhou-j", "-0.1", "32") >>,
      \* zones without a subnet before one that may have one
      << Listing("ecs.g7.16xlarge", "ap-southeast-1a", "0.0400", "64"),
         Listing("ecs.g7.16xlarge", "cn-hangzhou-K", "0.0400", "64"),
         Listing("ecs.g7.16xlarge", "cn-hangzhou-h", "0.0400", "64"),
         Listing("ecs.g7.16xlarge", "cn-hangzhou-k", "0.0500", "64"),
         Listing("ecs.g7.16xlarge", "cn-hangzhou-j", "0.0600", "64") >>,
      \* five offers in a zone without a subnet before one with a subnet
      << Listing("ecs.g7.16xlarge", "cn-hangzhou-h", "0.0400", "64"),
         Listing("ecs.g7.16xlarge", "cn-hangzhou-h", "0.0400", "64"),
         Listing("ecs.g7.16xlarge", "cn-hangzhou-h", "0.0500", "64"),
         Listing("ecs.g7.16xlarge", "cn-hangzhou-h", "0.0500", "64"),
         Listing("ecs.g7.16xlarge", "cn-hangzhou-h", "0.0600", "64"),
         Listing("ecs.g7.16xlarge", "cn-hangzhou-j", "0.0600", "64") >>,
      \* more than five offers that pass
      << Listing("ecs.g7.16xlarge", "cn-hangzhou-k", "0.0400", "64"),
         Listing("ecs.g7.16xlarge", "cn-hangzhou-j", "0.0400", "64"),
         Listing("ecs.g7.16xlarge", "cn-hangzhou-k", "0.0500", "64"),
         Listing("ecs.g7.16xlarge", "cn-hangzhou-j", "0.0500", "64"),
         Listing("ecs.g7.16xlarge", "cn-hangzhou-k", "0.0600", "64"),
         Listing("ecs.g7.16xlarge", "cn-hangzhou-j", "0.0600", "64"),
         Listing("ecs.g7.16xlarge", "cn-hangzhou-k", "0.0400", "64") >>,
      \* a CPU count and a memory size that are empty texts
      << Listing("ecs.c7.small", "cn-hangzhou-k", "0.0400", ""),
         Listing("ecs.g7.16xlarge", "cn-hangzhou-k", "0.0400", "") >>,
      << Offer("ecs.g7.16xlarge", "cn-hangzhou-j", "0.0400", "64", "") >> }

\* What one run of the advisor gives query_spot_instances:
\*   raised  "no", or the exception subprocess.run raised
\*   rc      the exit code
\*   out     stdout: "empty" (blank after strip), "badjson" or "json"
\*   data    the JSON value: "list" or "dict"
\*   offers  the list's elements
\*   seconds the time the advisor takes to answer
\*   hangs   the advisor never exits
Advice(x, rc, o, d, offers) ==
    [raised |-> x, rc |-> rc, out |-> o, data |-> d, offers |-> offers, seconds |-> 1,
     hangs |-> FALSE]

\* The timeout query_spot_instances passes to subprocess.run: none (line 85
\* has no timeout argument).
AdvisorTimeout == <<>>

AdvisorResults ==
    { Advice("no", 0, "json", "list", l) : l \in OfferLists }
    \cup { Advice("no", 0, "json", "list", <<>>),
           Advice("no", 0, "json", "dict", <<>>),
           Advice("no", 0, "badjson", "list", <<>>),
           Advice("no", 0, "empty", "list", <<>>),
           Advice("no", 1, "json", "list",
                  <<Offer("ecs.c7.2xlarge", "cn-hangzhou-k", "0.0500", "8", "16")>>),
           Advice("SubprocessError", 0, "empty", "list", <<>>),
           Advice("OSError", 0, "empty", "list", <<>>),
           \* an offer, answered after an hour
           [Advice("no", 0, "json", "list",
                   <<Offer("ecs.c7.2xlarge", "cn-hangzhou-k", "0.0500", "8", "16")>>)
               EXCEPT !.seconds = 3600],
           \* an advisor that never exits
           [Advice("no", 0, "empty", "list", <<>>) EXCEPT !.hangs = TRUE] }

\* What stands for the result of a call that does not return.
Waits == "<waits for good>"

\* Variant of QuerySpotInstances: an empty list is returned as a result.
QuerySpotInstancesKeepsEmpty(res) ==
    IF res.raised = "OSError" THEN Crash
    ELSE IF Blocks(AdvisorTimeout, res) THEN Waits
    ELSE IF res.raised = "SubprocessError" THEN <<>>
    ELSE IF TimeoutExpired(AdvisorTimeout, res.seconds) THEN <<>>
    ELSE IF res.rc # 0 THEN <<>>
    ELSE IF res.out = "empty" THEN <<>>
    ELSE IF res.out = "badjson" THEN <<>>
    ELSE IF res.data # "list" THEN <<>>
    ELSE <<res.offers>>

\* query_spot_instances (lines 84-100): <<>> for None, <<offers>> for the
\* list it returns, Crash when the exception is not one it catches, Waits
\* when subprocess.run, which has no timeout, waits for an advisor that never
\* exits.
QuerySpotInstances(res) ==
    IF res.raised = "OSError" THEN Crash
    ELSE IF Blocks(AdvisorTimeout, res) THEN Waits
    ELSE IF res.raised = "SubprocessError" THEN <<>>
    ELSE IF TimeoutExpired(AdvisorTimeout, res.seconds) THEN <<>>
    ELSE IF res.rc # 0 THEN <<>>
    ELSE IF res.out = "empty" THEN <<>>
    ELSE IF res.out = "badjson" THEN <<>>
    ELSE IF res.data # "list" \/ Len(res.offers) = 0 THEN <<>>
    ELSE <<res.offers>>

-----------------------------------------------------------------------------
(* Selector: filtering, subnet resolution and the result *)

\* An optional number: <<>> for None, <<n>> for n.
Some(n) == <<n>>

\* The pieces of a type or zone name that the regular expressions of
\* parse_cpu_from_instance_type and get_vswitch_id look at: the end of the
\* name cut at the dot or hyphen, the digits and the letters before its end.
Chars(s) ==
    CASE s = "ecs.c7.2xlarge" -> <<"ecs.c7", ".", "2", "xlarge">>
      [] s = "ecs.g7.4xlarge" -> <<"ecs.g7", ".", "4", "xlarge">>
      [] s = "ecs.g7.16xlarge" -> <<"ecs.g7", ".", "16", "xlarge">>
      [] s = "ecs.c7.xlarge" -> <<"ecs.c7", ".", "xlarge">>
      [] s = "ecs.c7.large" -> <<"ecs.c7", ".", "large">>
      [] s = "ecs.t6.medium" -> <<"ecs.t6", ".", "medium">>
      [] s = "ecs.c7.small" -> <<"ecs.c7", ".", "small">>
      [] s = "ecs.c7-2xlarge" -> <<"ecs.c7", "-", "2", "xlarge">>
      [] s = "ecs.c7.2XLARGE" -> <<"ecs.c7", ".", "2", "XLARGE">>
      [] s = "cn-hangzhou-k" -> <<"cn-hangzhou", "-", "k">>
      [] s = "cn-hangzhou-j" -> <<"cn-hangzhou", "-", "j">>
      [] s = "cn-hangzhou-h" -> <<"cn-hangzhou", "-", "h">>
      [] s = "cn-hangzhou-K" -> <<"cn-hangzhou", "-", "K">>
      [] s = "ap-southeast-1a" -> <<"ap-southeast", "-", "1", "a">>
      [] OTHER -> <<s>>

\* parse_cpu_from_instance_type that takes the digits before xlarge whatever
\* stands before them.
ParseCpuFromInstanceTypeNoDot(instance_type) ==
    LET c == Chars(instance_type)
        n == Len(c)
    IN  IF n >= 3 /\ c[n - 1] \in IntText /\ c[n] = "xlarge"
        THEN Some(ParseInt(c[n - 1]) * 4)
        ELSE IF n >= 2 /\ c[n - 1] = "." /\ c[n] = "xlarge" THEN Some(4)
        ELSE IF n >= 2 /\ c[n - 1] = "." /\ c[n] = "large" THEN Some(2)
        ELSE IF n >= 2 /\ c[n - 1] = "." /\ c[n] = "medium" THEN Some(2)
        ELSE <<>>

\* parse_cpu_from_instance_type
ParseCpuFromInstanceType(instance_type) ==
    LET c == Chars(instance_type)
        n == Len(c)
    IN  IF n >= 3 /\ c[n - 2] = "." /\ c[n - 1] \in IntText /\ c[n] = "xlarge"
        THEN Some(ParseInt(c[n - 1]) * 4)
        ELSE IF n >= 2 /\ c[n - 1] = "." /\ c[n] = "xlarge" THEN Some(4)
        ELSE IF n >= 2 /\ c[n - 1] = "." /\ c[n] = "large" THEN Some(2)
        ELSE IF n >= 2 /\ c[n - 1] = "." /\ c[n] = "medium" THEN Some(2)
        ELSE <<>>

\* get_field_value: the value under the first of the keys the object has,
\* as text; None for a JSON null or when the object has none of the keys.
RECURSIVE GetFieldValue(_, _)
GetFieldValue(obj, keys) ==
    IF keys = <<>> THEN None
    ELSE IF Head(keys) \in DOMAIN obj THEN obj[Head(keys)]
    ELSE GetFieldValue(obj, Tail(keys))

\* int(s) of a CPU-count text: <<>> when it raises ValueError.
CpuOfText(s) == IF s \in IntText THEN Some(ParseInt(s)) ELSE <<>>

\* int(float(s)) of a memory text: <<>> when it raises ValueError.
MemOfText(s) ==
    IF s \in IntText THEN Some(ParseInt(s))
    ELSE IF s = "64.5" THEN Some(64)
    ELSE <<>>

\* float(s) of a price text, in millionths: <<>> when it raises ValueError.
PriceOfText(s) ==
    CASE s = "0.0500" -> Some(50000) [] s = "0.0400" -> Some(40000)
      [] s = "0.0600" -> Some(60000) [] s = "0.00001" -> Some(10)
      [] s = "0" -> Some(0) [] s = "-0.1" -> Some(0 - 100000)
      [] OTHER -> <<>>

\* filter_instances on one offer without the comparison of the memory size
\* with the minimum.
FilterOneNoMemoryCheck(instance, min_cpu, min_mem, arch) ==
    LET instance_type == GetFieldValue(instance, <<"instanceTypeId", "instance_type", "InstanceType">>)
        zone_id == GetFieldValue(instance, <<"zoneId", "zone_id", "ZoneId">>)
        price_per_core == GetFieldValue(instance,
            <<"pricePerCore", "price_per_core", "PricePerCore", "price", "Price">>)
        cpu_text == GetFieldValue(instance,
            <<"cpuCoreCount", "cpu_cores", "CpuCores", "cores", "Cores">>)
        mem_text == GetFieldValue(instance,
            <<"memorySize", "memory_size", "MemorySize", "memory", "Memory">>)
        read_cpu == IF Truthy(cpu_text) THEN CpuOfText(cpu_text) ELSE <<>>
        cpu_cores == IF read_cpu # <<>> THEN read_cpu
                     ELSE ParseCpuFromInstanceType(instance_type)
        read_mem == IF Truthy(mem_text) THEN MemOfText(mem_text) ELSE <<>>
        memory_size == IF read_mem # <<>> THEN read_mem[1]
                       ELSE IF arch = "arm64" THEN cpu_cores[1] * 2
                       ELSE cpu_cores[1]
        skip == [act |-> "skip", cand |-> <<>>]
    IN  IF ~Truthy(instance_type) \/ ~Truthy(zone_id) \/ ~Truthy(price_per_core) THEN skip
        ELSE IF cpu_text = "" THEN [act |-> "raise", cand |-> <<>>]
        ELSE IF cpu_cores = <<>> THEN skip
        ELSE IF cpu_cores[1] < min_cpu THEN skip
        ELSE IF mem_text = "" THEN [act |-> "raise", cand |-> <<>>]
        ELSE IF PriceOfText(price_per_core) = <<>> THEN skip
        ELSE [act |-> "keep",
              cand |-> <<[instance_type |-> instance_type, zone_id |-> zone_id,
                          price_per_core |-> PriceOfText(price_per_core)[1],
                          cpu_cores |-> cpu_cores[1]]>>]

\* What filter_instances does with one offer (lines 113-175): "skip", "keep"
\* with the candidate tuple, or "raise" when a comparison of a text with a
\* number raises TypeError.
FilterOne(instance, min_cpu, min_mem, arch) ==
    LET instance_type == GetFieldValue(instance, <<"instanceTypeId", "instance_type", "InstanceType">>)
        zone_id == GetFieldValue(instance, <<"zoneId", "zone_id", "ZoneId">>)
        price_per_core == GetFieldValue(instance,
            <<"pricePerCore", "price_per_core", "PricePerCore", "price", "Price">>)
        cpu_text == GetFieldValue(instance,
            <<"cpuCoreCount", "cpu_cores", "CpuCores", "cores", "Cores">>)
        mem_text == GetFieldValue(instance,
            <<"memorySize", "memory_size", "MemorySize", "memory", "Memory">>)
        read_cpu == IF Truthy(cpu_text) THEN CpuOfText(cpu_text) ELSE <<>>
        cpu_cores == IF read_cpu # <<>> THEN read_cpu
                     ELSE ParseCpuFromInstanceType(instance_type)
        read_mem == IF Truthy(mem_text) THEN MemOfText(mem_text) ELSE <<>>
        memory_size == IF read_mem # <<>> THEN read_mem[1]
                       ELSE IF arch = "arm64" THEN cpu_cores[1] * 2
                       ELSE cpu_cores[1]
        skip == [act |-> "skip", cand |-> <<>>]
    IN  IF ~Truthy(instance_type) \/ ~Truthy(zone_id) \/ ~Truthy(price_per_core) THEN skip
        ELSE IF cpu_text = "" THEN [act |-> "raise", cand |-> <<>>]
        ELSE IF cpu_cores = <<>> THEN skip
        ELSE IF cpu_cores[1] < min_cpu THEN skip
        ELSE IF mem_text = "" THEN [act |-> "raise", cand |-> <<>>]
        ELSE IF memory_size < min_mem THEN skip
        ELSE IF PriceOfText(price_per_core) = <<>> THEN skip
        ELSE [act |-> "keep",
              cand |-> <<[instance_type |-> instance_type, zone_id |-> zone_id,
                          price_per_core |-> PriceOfText(price_per_core)[1],
                          cpu_cores |-> cpu_cores[1]]>>]

\* The loop of filter_instances from the offers still to look at and the
\* candidates kept so far.
RECURSIVE FilterLoop(_, _, _, _, _, _)
FilterLoop(instances, kept, min_cpu, min_mem, arch, max_candidates) ==
    IF instances = <<>> THEN [raised |-> FALSE, candidates |-> kept]
    ELSE LET one == FilterOne(Head(instances), min_cpu, min_mem, arch)
         IN  IF one.act = "raise" THEN [raised |-> TRUE, candidates |-> <<>>]
             ELSE IF one.act = "skip"
             THEN FilterLoop(Tail(instances), kept, min_cpu, min_mem, arch, max_candidates)
             ELSE IF Len(kept) + 1 >= max_candidates
             THEN [raised |-> FALSE, candidates |-> kept \o one.cand]
             ELSE FilterLoop(Tail(instances), kept \o one.cand, min_cpu, min_mem, arch,
                             max_candidates)

\* filter_instances without the limit on the number of candidates.
FilterInstancesUnlimited(instances, min_cpu, min_mem, arch, max_candidates) ==
    FilterLoop(instances, <<>>, min_cpu, min_mem, arch, Len(instances) + 1)

\* filter_instances
FilterInstances(instances, min_cpu, min_mem, arch, max_candidates) ==
    FilterLoop(instances, <<>>, min_cpu, min_mem, arch, max_candidates)

\* str.upper() of the letters a zone ends in.
Upper(c) ==
    CASE c = "k" -> "K" [] c = "j" -> "J" [] c = "h" -> "H" [] c = "a" -> "A"
      [] OTHER -> c

\* The characters [a-z] matches, among those zones end in.
LowerLetters == {"k", "j", "h", "a"}

\* os.environ.get(name) on the subnet variables of the environment.
EnvGet(subnets, name) == IF name \in DOMAIN subnets THEN subnets[name] ELSE None

\* get_vswitch_id: the variable's name is the prefix and the suffix.
GetVswitchId(zone_id, subnets) ==
    LET c == Chars(zone_id)
        n == Len(c)
    IN  IF n >= 2 /\ c[n - 1] = "-" /\ c[n] \in LowerLetters
        THEN EnvGet(subnets, <<"ALIYUN_VSWITCH_ID_", Upper(c[n])>>)
        ELSE None

\* a / b rounded to the nearest integer, b > 0.
RoundDiv(a, b) ==
    IF a >= 0 THEN (2 * a + b) \div (2 * b) ELSE 0 - ((2 * (0 - a) + b) \div (2 * b))

\* The decimal numeral with four decimals of n ten-thousandths.
Fixed4(n) ==
    CASE n = -76800 -> "-7.6800" [] n = -38400 -> "-3.8400" [] n = -19200 -> "-1.9200" [] n = -9600 -> "-0.9600"
      [] n = -4800 -> "-0.4800" [] n = -2400 -> "-0.2400" [] n = 0 -> "0.0000"
      [] n = 1 -> "0.0001" [] n = 2 -> "0.0002" [] n = 8 -> "0.0008"
      [] n = 960 -> "0.0960" [] n = 1200 -> "0.1200" [] n = 1440 -> "0.1440"
      [] n = 1920 -> "0.1920" [] n = 2400 -> "0.2400" [] n = 2880 -> "0.2880"
      [] n = 3840 -> "0.3840" [] n = 4800 -> "0.4800" [] n = 5760 -> "0.5760"
      [] n = 7680 -> "0.7680" [] n = 9600 -> "0.9600" [] n = 11520 -> "1.1520"
      [] n = 30720 -> "3.0720" [] n = 38400 -> "3.8400" [] n = 46080 -> "4.6080"

\* price_per_core * cpu_cores * 1.2 rounded to four decimals, in
\* ten-thousandths, the price in millionths (lines 371-372 and 391-392).
SpotPriceLimit(price_per_core, cpu_cores) == RoundDiv(price_per_core * cpu_cores * 12, 1000)

\* The price ceiling formatted with .4f (lines 395 and 403).
SpotPriceLimitText(price_per_core, cpu_cores) ==
    Fixed4(SpotPriceLimit(price_per_core, cpu_cores))

\* str(n) of a CPU count.
IntStr(n) ==
    CASE n = 2 -> "2" [] n = 4 -> "4" [] n = 8 -> "8"
      [] n = 16 -> "16" [] n = 32 -> "32" [] n = 64 -> "64"

\* The line main() writes to the candidate file for a candidate (line 394).
CandidateLine(cand, vswitch_id) ==
    <<cand.instance_type, "|", cand.zone_id, "|", vswitch_id, "|",
      SpotPriceLimitText(cand.price_per_core, cand.cpu_cores), "|",
      IntStr(cand.cpu_cores), "\n">>

\* Variant of CandidateLines: the candidates without a subnet are written too.
RECURSIVE CandidateLinesAll(_, _)
CandidateLinesAll(cands, subnets) ==
    IF cands = <<>> THEN <<>>
    ELSE <<CandidateLine(Head(cands), GetVswitchId(Head(cands).zone_id, subnets))>>
             \o CandidateLinesAll(Tail(cands), subnets)

\* The lines of the candidate file (lines 374-397): the candidates with a
\* subnet, in order.
RECURSIVE CandidateLines(_, _)
CandidateLines(cands, subnets) ==
    IF cands = <<>> THEN <<>>
    ELSE LET cand_vswitch_id == GetVswitchId(Head(cands).zone_id, subnets)
         IN  (IF ~Truthy(cand_vswitch_id) THEN <<>>
              ELSE <<CandidateLine(Head(cands), cand_vswitch_id)>>)
                 \o CandidateLines(Tail(cands), subnets)

\* The name tempfile.NamedTemporaryFile gives the candidate file.
TempName == "/tmp/tmpcands.txt"

\* A line print() writes to stdout.
KeyValue(k, v) == [key |-> k, value |-> v]

-----------------------------------------------------------------------------
(* Selector: the environment a run starts in *)

SelEnv(set, arch, advisor, mincpu, maxcpu, minmem, maxmem, subnets) ==
    [set |-> set, ARCH |-> arch, advisor_is_file |-> advisor, advisor_access |-> "executable",
     MIN_CPU |-> mincpu, MAX_CPU |-> maxcpu, MIN_MEM |-> minmem, MAX_MEM |-> maxmem,
     subnets |-> subnets]

\* The same environment with another answer to lines 214-215 for the advisor
\* file: "executable" (os.access finds the execute bit), "chmod" (it does
\* not, and os.chmod sets it) or "denied" (it does not, and os.chmod raises
\* PermissionError because the file is another user's).
WithAccess(e, access) == [e EXCEPT !.advisor_access = access]

\* The name of a subnet variable: the prefix and the zone's letter.
SubnetVar(suffix) == <<"ALIYUN_VSWITCH_ID_", suffix>>

\* The subnet variables a run may be started with.
SubnetEnvs ==
    { [v \in {SubnetVar("K"), SubnetVar("k"), SubnetVar("J"), SubnetVar("A")} |->
          CASE v[2] = "K" -> "vsw-k" [] v[2] = "k" -> "vsw-lower"
            [] v[2] = "J" -> "vsw-j" [] v[2] = "A" -> "vsw-a"],
      [v \in {SubnetVar("K"), SubnetVar("J")} |->
          IF v[2] = "K" THEN "" ELSE "vsw-j"],
      [v \in {} |-> ""] }

AllRequiredSel == RequiredSet(RequiredSel)

\* Largest CPU count a run is configured with, beyond the fixed cases.
MaxCpuSetting == 40

SelEnvs ==
    { SelEnv(s, None, TRUE, Unset, Unset, Unset, Unset, [v \in {} |-> ""]) :
        s \in (SUBSET AllRequiredSel) \ {AllRequiredSel} }
    \cup
    { SelEnv(AllRequiredSel, a, f, lo, hi, Unset, mm, sn) :
        a \in {None, "amd64", "arm64", "", "x86_64"},
        f \in BOOLEAN,
        lo \in {Unset, Blank, NotANumber, Num(4), Num(16), Num(32), Num(MaxCpuSetting)},
        hi \in {Unset, Num(8), Num(32)},
        mm \in {Unset, Num(16)},
        sn \in SubnetEnvs }
    \cup
    \* an advisor file without the execute bit
    { WithAccess(SelEnv(AllRequiredSel, a, TRUE, Unset, Unset, Unset, Unset,
                        [v \in {SubnetVar("K")} |-> "vsw-k"]), x) :
        a \in {"amd64", "arm64", "x86_64"}, x \in {"chmod", "denied"} }
    \cup
    \* a minimum memory above what the default CPU count gives
    { SelEnv(AllRequiredSel, a, TRUE, Unset, Unset, Num(32), Unset,
             [v \in {SubnetVar("K")} |-> "vsw-k"]) : a \in {"amd64", "arm64"} }

ProvIdle ==
    /\ file = <<>>
    /\ lookup = <<>>
    /\ image_id = None
    /\ candidates = <<>>
    /\ candIdx = 0
    /\ diskIdx = 0
    /\ calls = <<>>
    /\ last = <<>>
    /\ otherFail = {}
    /\ last_error = <<>>
    /\ user_data_content = <<>>

SelInit ==
    /\ prog = "selector"
    /\ pc = "start"
    /\ env \in SelEnvs
    /\ ProvIdle
    /\ SelIdle
    /\ WrIdle
    /\ ext = <<>>
    /\ stdout = <<>>
    /\ errMsg = <<>>
    /\ exitStatus = -1

-----------------------------------------------------------------------------
(* Selector: main() *)

\* Lines 200-202: the required variables.
SelReadEnv ==
    /\ prog = "selector" /\ pc = "start"
    /\ LET missing == FirstMissing(RequiredSel, env.set)
       IN  IF missing # None
           THEN ErrorExit(Err("required", missing, 0, <<>>))
           ELSE pc' = "validate" /\ UNCHANGED <<errMsg, exitStatus>>
    /\ UNCHANGED <<prog, env, ext, stdout>>
    /\ UNCHANGED provVars
    /\ UNCHANGED wrVars
    /\ UNCHANGED selVars

\* The values lines 219-249 compute, once every int() has succeeded.
SelParams(e) ==
    LET arch == IF e.ARCH = None THEN "amd64" ELSE e.ARCH
        min_cpu == IF IsEmptyText(e.MIN_CPU) THEN 8 ELSE e.MIN_CPU.n
        max_cpu == IF IsEmptyText(e.MAX_CPU) THEN 64 ELSE e.MAX_CPU.n
    IN  [arch |-> arch,
         min_cpu |-> min_cpu,
         max_cpu |-> max_cpu,
         min_mem |-> IF ~IsEmptyText(e.MIN_MEM) THEN e.MIN_MEM.n
                     ELSE IF arch = "amd64" THEN min_cpu ELSE min_cpu * 2,
         max_mem |-> IF ~IsEmptyText(e.MAX_MEM) THEN e.MAX_MEM.n
                     ELSE IF arch = "amd64" THEN 64 ELSE 128,
         arch_param |-> IF arch = "amd64" THEN "x86_64" ELSE "arm64"]

\* Variant of SelValidate: the memory range is not validated.
SelValidateNoMemoryCheck ==
    /\ prog = "selector" /\ pc = "validate"
    /\ LET arch == IF env.ARCH = None THEN "amd64" ELSE env.ARCH
           p == SelParams(env)
       IN  IF arch \notin {"amd64", "arm64"}
           THEN ErrorExit(Err("arch", None, 0, <<>>))
                /\ UNCHANGED <<params, query_strategies, stratIdx>>
           ELSE IF ~env.advisor_is_file
           THEN ErrorExit(Err("advisor", None, 0, <<>>))
                /\ UNCHANGED <<params, query_strategies, stratIdx>>
           ELSE IF env.advisor_access = "denied"
           THEN Traceback /\ UNCHANGED <<params, query_strategies, stratIdx>>
           ELSE IF \E v \in {env.MIN_CPU, env.MAX_CPU, env.MIN_MEM, env.MAX_MEM} :
                       v.text = "bad"
           THEN Traceback /\ UNCHANGED <<params, query_strategies, stratIdx>>
           ELSE IF p.min_cpu > p.max_cpu
           THEN ErrorExit(Err("cpu_range", None, 0, <<>>))
                /\ UNCHANGED <<params, query_strategies, stratIdx>>
           ELSE /\ params' = <<p>>
                /\ query_strategies' = QueryStrategies(arch, p.min_cpu, p.max_cpu)
                /\ stratIdx' = 1
                /\ pc' = "query"
                /\ UNCHANGED <<errMsg, exitStatus>>
    /\ UNCHANGED <<prog, env, ext, stdout, queries, lastAdv, json_result, written>>
    /\ UNCHANGED provVars
    /\ UNCHANGED wrVars

\* Lines 203-285: validation of the parameters, and the strategy list.
SelValidate ==
    /\ prog = "selector" /\ pc = "validate"
    /\ LET arch == IF env.ARCH = None THEN "amd64" ELSE env.ARCH
           p == SelParams(env)
       IN  IF arch \notin {"amd64", "arm64"}
           THEN ErrorExit(Err("arch", None, 0, <<>>))
                /\ UNCHANGED <<params, query_strategies, stratIdx>>
           ELSE IF ~env.advisor_is_file
           THEN ErrorExit(Err("advisor", None, 0, <<>>))
                /\ UNCHANGED <<params, query_strategies, stratIdx>>
           ELSE IF env.advisor_access = "denied"
           THEN Traceback /\ UNCHANGED <<params, query_strategies, stratIdx>>
           ELSE IF \E v \in {env.MIN_CPU, env.MAX_CPU, env.MIN_MEM, env.MAX_MEM} :
                       v.text = "bad"
           THEN Traceback /\ UNCHANGED <<params, query_strategies, stratIdx>>
           ELSE IF p.min_cpu > p.max_cpu
           THEN ErrorExit(Err("cpu_range", None, 0, <<>>))
                /\ UNCHANGED <<params, query_strategies, stratIdx>>
           ELSE IF p.min_mem > p.max_mem
           THEN ErrorExit(Err("mem_range", None, 0, <<>>))
                /\ UNCHANGED <<params, query_strategies, stratIdx>>
           ELSE /\ params' = <<p>>
                /\ query_strategies' = QueryStrategies(arch, p.min_cpu, p.max_cpu)
                /\ stratIdx' = 1
                /\ pc' = "query"
                /\ UNCHANGED <<errMsg, exitStatus>>
    /\ UNCHANGED <<prog, env, ext, stdout, queries, lastAdv, json_result, written>>
    /\ UNCHANGED provVars
    /\ UNCHANGED wrVars

\* Variant of SelQuery: a result none of whose offers passes filtering moves
\* the loop to the next strategy.
SelQueryUntilFit ==
    /\ prog = "selector" /\ pc = "query"
    /\ stratIdx <= Len(query_strategies)
    /\ \E res \in AdvisorResults :
         LET cmd == QueryCommand(query_strategies[stratIdx], params[1])
             instances == QuerySpotInstances(res)
             unfit == \E filtered \in {FilterInstances(instances[1], params[1].min_cpu,
                                                      params[1].min_mem, params[1].arch, 5)} :
                          ~filtered.raised /\ filtered.candidates = <<>>
         IN  /\ queries' = Append(queries, cmd)
             /\ ext' = Append(ext, "spot-instance-advisor")
             /\ lastAdv' = <<res>>
             /\ IF instances = Crash
                THEN Traceback /\ UNCHANGED <<json_result, stratIdx>>
                ELSE IF instances = Waits
                THEN Blocked /\ UNCHANGED <<json_result, stratIdx>>
                ELSE IF instances # <<>> /\ ~unfit
                THEN /\ json_result' = instances
                     /\ pc' = "filter"
                     /\ UNCHANGED <<stratIdx, errMsg, exitStatus>>
                ELSE /\ stratIdx' = stratIdx + 1
                     /\ UNCHANGED <<pc, json_result, errMsg, exitStatus>>
    /\ UNCHANGED <<prog, env, stdout, params, query_strategies, written>>
    /\ UNCHANGED provVars
    /\ UNCHANGED wrVars

\* Lines 291-324: one turn of the strategy loop: the advisor query of the
\* strategy at stratIdx, and what main() does with its result; main() stays
\* in the call of line 291 when the query does not return.
SelQuery ==
    /\ prog = "selector" /\ pc = "query"
    /\ stratIdx <= Len(query_strategies)
    /\ \E res \in AdvisorResults :
         LET cmd == QueryCommand(query_strategies[stratIdx], params[1])
             instances == QuerySpotInstances(res)
         IN  /\ queries' = Append(queries, cmd)
             /\ ext' = Append(ext, "spot-instance-advisor")
             /\ lastAdv' = <<res>>
             /\ IF instances = Crash
                THEN Traceback /\ UNCHANGED <<json_result, stratIdx>>
                ELSE IF instances = Waits
                THEN Blocked /\ UNCHANGED <<json_result, stratIdx>>
                ELSE IF instances # <<>>
                THEN /\ json_result' = instances
                     /\ pc' = "filter"
                     /\ UNCHANGED <<stratIdx, errMsg, exitStatus>>
                ELSE /\ stratIdx' = stratIdx + 1
                     /\ UNCHANGED <<pc, json_result, errMsg, exitStatus>>
    /\ UNCHANGED <<prog, env, stdout, params, query_strategies, written>>
    /\ UNCHANGED provVars
    /\ UNCHANGED wrVars

\* The report with the candidate file created before the subnets are looked at.
SelReportCreatesFileFirst ==
    /\ prog = "selector" /\ pc = "filter"
    /\ \E filtered \in {FilterInstances(json_result[1], params[1].min_cpu,
                                          params[1].min_mem, params[1].arch, 5)} :
       LET cands == filtered.candidates
           withSubnet == {i \in 1..Len(cands) :
                             Truthy(GetVswitchId(cands[i].zone_id, env.subnets))}
       IN  IF filtered.raised
           THEN Traceback /\ UNCHANGED <<written, stdout>>
           ELSE IF cands = <<>>
           THEN ErrorExit(Err("no_match", None, 0, <<>>)) /\ UNCHANGED <<written, stdout>>
           ELSE IF withSubnet = {}
           THEN ErrorExit(Err("no_vswitch", None, 0, <<>>)) /\ written' = <<<<>>>>
                   /\ UNCHANGED stdout
           ELSE LET first == cands[CHOOSE i \in withSubnet : \A j \in withSubnet : i <= j]
                    vswitch_id == GetVswitchId(first.zone_id, env.subnets)
                IN  /\ written' = <<CandidateLines(cands, env.subnets)>>
                    /\ stdout' = stdout \o
                          <<KeyValue("INSTANCE_TYPE", first.instance_type),
                            KeyValue("ZONE_ID", first.zone_id),
                            KeyValue("VSWITCH_ID", vswitch_id),
                            KeyValue("SPOT_PRICE_LIMIT",
                                     SpotPriceLimitText(first.price_per_core, first.cpu_cores)),
                            KeyValue("CPU_CORES", IntStr(first.cpu_cores)),
                            KeyValue("CANDIDATES_FILE", TempName)>>
                    /\ pc' = "done"
                    /\ exitStatus' = 0
                    /\ UNCHANGED errMsg
    /\ UNCHANGED <<prog, env, ext, params, query_strategies, stratIdx, queries, lastAdv,
                   json_result>>
    /\ UNCHANGED provVars
    /\ UNCHANGED wrVars

\* Lines 334-397: filtering, the primary candidate, the candidate file and
\* the result lines on stdout.
SelReport ==
    /\ prog = "selector" /\ pc = "filter"
    /\ \E filtered \in {FilterInstances(json_result[1], params[1].min_cpu,
                                          params[1].min_mem, params[1].arch, 5)} :
       LET cands == filtered.candidates
           withSubnet == {i \in 1..Len(cands) :
                             Truthy(GetVswitchId(cands[i].zone_id, env.subnets))}
       IN  IF filtered.raised
           THEN Traceback /\ UNCHANGED <<written, stdout>>
           ELSE IF cands = <<>>
           THEN ErrorExit(Err("no_match", None, 0, <<>>)) /\ UNCHANGED <<written, stdout>>
           ELSE IF withSubnet = {}
           THEN ErrorExit(Err("no_vswitch", None, 0, <<>>)) /\ UNCHANGED <<written, stdout>>
           ELSE LET first == cands[CHOOSE i \in withSubnet : \A j \in withSubnet : i <= j]
                    vswitch_id == GetVswitchId(first.zone_id, env.subnets)
                IN  /\ written' = <<CandidateLines(cands, env.subnets)>>
                    /\ stdout' = stdout \o
                          <<KeyValue("INSTANCE_TYPE", first.instance_type),
                            KeyValue("ZONE_ID", first.zone_id),
                            KeyValue("VSWITCH_ID", vswitch_id),
                            KeyValue("SPOT_PRICE_LIMIT",
                                     SpotPriceLimitText(first.price_per_core, first.cpu_cores)),
                            KeyValue("CPU_CORES", IntStr(first.cpu_cores)),
                            KeyValue("CANDIDATES_FILE", TempName)>>
                    /\ pc' = "done"
                    /\ exitStatus' = 0
                    /\ UNCHANGED errMsg
    /\ UNCHANGED <<prog, env, ext, params, query_strategies, stratIdx, queries, lastAdv,
                   json_result>>
    /\ UNCHANGED provVars
    /\ UNCHANGED wrVars

\* Lines 326-327: no strategy gave a result.
SelAllFailed ==
    /\ prog = "selector" /\ pc = "query"
    /\ stratIdx > Len(query_strategies)
    /\ ErrorExit(Err("no_results", None, 0, <<>>))
    /\ UNCHANGED <<prog, env, ext, stdout>>
    /\ UNCHANGED provVars
    /\ UNCHANGED wrVars
    /\ UNCHANGED selVars

SelNext ==
    \/ SelReadEnv
    \/ SelValidate
    \/ SelQuery
    \/ SelReport
    \/ SelAllFailed

-----------------------------------------------------------------------------
(* UserData writer: the environment a run starts in *)

\* Payload texts, character by character:
\*   aGk=         hi
\*   aGkK         hi and a line feed
\*   a\nGk=       hi, the text broken over two lines
\*   aGk          no padding
\*   a            a single character
\*   /w==         the byte 255, which is not UTF-8
\*   w6k=         e-acute, two bytes
\*   4pyT         a check mark, three bytes
\*   7aCA         a surrogate, not UTF-8
\*                a blank
\*   aGk=aGk=     text after the padding
\*   aGké         a character outside ASCII
PayloadTexts ==
    { <<"a", "G", "k", "=">>,
      <<"a", "G", "k", "K">>,
      <<"a", "\n", "G", "k", "=">>,
      <<"a", "G", "k">>,
      <<"a">>,
      <<"/", "w", "=", "=">>,
      <<"w", "6", "k", "=">>,
      <<"4", "p", "y", "T">>,
      <<"7", "a", "C", "A">>,
      <<" ">>,
      <<"a", "G", "k", "=", "a", "G", "k", "=">>,
      <<"a", "G", "k", "<U+00E9>">> }

\* What standard input may hold.
StdinTexts ==
    { <<>>, <<" ", "\n">>, <<" ", "a", "G", "k", "K", "\n">>, <<"a", "G", "k", "\n">> }

\* The script's name, and the destinations: the second cannot be opened for
\* writing.
ScriptName == "write_user_data.py"
Destinations == {"/tmp/user_data.sh", "/nonexistent/user_data.sh"}
Writable == {"/tmp/user_data.sh"}

WrEnv(argv, b64, stdin) == [argv |-> argv, USER_DATA_B64 |-> b64, stdin |-> stdin]

WrEnvs ==
    { WrEnv(a, v, i) :
        a \in {<<ScriptName>>} \cup {<<ScriptName, d>> : d \in Destinations},
        v \in {<<>>, <<<<>>>>} \cup {<<t>> : t \in PayloadTexts},
        i \in StdinTexts }

\* The payloads the Provisioner's creation calls carry with --UserData.
BootPayloads ==
    { UserDataB64(PrepareUserData(b[1], b[2])) : b \in BootScripts } \ {<<>>}

\* Runs that are given such a payload, in the variable or on standard input.
WrEnvsBoot ==
    { WrEnv(<<ScriptName, "/tmp/user_data.sh">>, p, <<>>) : p \in BootPayloads }
    \cup { WrEnv(<<ScriptName, "/tmp/user_data.sh">>, <<>>, Append(p[1], "\n")) :
              p \in BootPayloads }

WrInit ==
    /\ prog = "writer"
    /\ pc = "start"
    /\ env \in WrEnvs \cup WrEnvsBoot
    /\ ProvIdle
    /\ SelIdle
    /\ WrIdle
    /\ ext = <<>>
    /\ stdout = <<>>
    /\ errMsg = <<>>
    /\ exitStatus = -1

-----------------------------------------------------------------------------
(* UserData writer: main() *)

\* Lines 16-20: the destination argument.
WrArgs ==
    /\ prog = "writer" /\ pc = "start"
    /\ IF Len(env.argv) < 2
       THEN ErrorExit(Err("usage", None, 0, <<>>))
       ELSE pc' = "payload" /\ UNCHANGED <<errMsg, exitStatus>>
    /\ UNCHANGED <<prog, env, ext, stdout>>
    /\ UNCHANGED provVars
    /\ UNCHANGED selVars
    /\ UNCHANGED wrVars

\* The payload taken from standard input before the environment variable.
WrReadPayloadStdinFirst ==
    /\ prog = "writer" /\ pc = "payload"
    /\ \E from_stdin \in {StripLine(env.stdin)} :
          /\ user_data_b64' = IF from_stdin # <<>> THEN from_stdin
                              ELSE EnvGetText(env.USER_DATA_B64)
          /\ stdin_read' = TRUE
    /\ IF user_data_b64' = <<>>
       THEN ErrorExit(Err("empty", None, 0, <<>>))
       ELSE pc' = "decode" /\ UNCHANGED <<errMsg, exitStatus>>
    /\ UNCHANGED <<prog, env, ext, stdout, user_data, output, report>>
    /\ UNCHANGED provVars
    /\ UNCHANGED selVars

\* Lines 23-31: the payload, from USER_DATA_B64 or else from standard input.
WrReadPayload ==
    /\ prog = "writer" /\ pc = "payload"
    /\ \E from_env \in {EnvGetText(env.USER_DATA_B64)} :
          IF from_env # <<>>
          THEN user_data_b64' = from_env /\ stdin_read' = FALSE
          ELSE user_data_b64' = StripLine(env.stdin) /\ stdin_read' = TRUE
    /\ IF user_data_b64' = <<>>
       THEN ErrorExit(Err("empty", None, 0, <<>>))
       ELSE pc' = "decode" /\ UNCHANGED <<errMsg, exitStatus>>
    /\ UNCHANGED <<prog, env, ext, stdout, user_data, output, report>>
    /\ UNCHANGED provVars
    /\ UNCHANGED selVars

\* Lines 34-38: base64 and UTF-8 decoding. A character outside ASCII makes
\* b64decode raise a ValueError that the except clause does not name.
WrDecode ==
    /\ prog = "writer" /\ pc = "decode"
    /\ IF \E i \in 1..Len(user_data_b64) : user_data_b64[i] \in NonAscii
       THEN Traceback /\ UNCHANGED user_data
       ELSE \E decoded \in {B64Decode(user_data_b64)} :
               IF decoded.err
               THEN ErrorExit(Err("decode", None, 0, <<>>)) /\ UNCHANGED user_data
               ELSE \E text \in {Utf8Decode(decoded.bytes)} :
                       IF text.err
                       THEN ErrorExit(Err("decode", None, 0, <<>>)) /\ UNCHANGED user_data
                       ELSE /\ user_data' = <<text.chars>>
                            /\ pc' = "write"
                            /\ UNCHANGED <<errMsg, exitStatus>>
    /\ UNCHANGED <<prog, env, ext, stdout, user_data_b64, stdin_read, output, report>>
    /\ UNCHANGED provVars
    /\ UNCHANGED selVars

\* Lines 41-53: the file, and the byte count on stderr; the status is 0 when
\* main() returns.
WrWrite ==
    /\ prog = "writer" /\ pc = "write"
    /\ LET output_file == env.argv[2]
       IN  IF output_file \notin Writable
           THEN ErrorExit(Err("write", None, 0, <<>>)) /\ UNCHANGED <<output, report>>
           ELSE /\ output' = <<Utf8Encode(user_data[1])>>
                /\ report' = <<[file |-> output_file,
                                file_size |-> Len(Utf8Encode(user_data[1]))]>>
                /\ pc' = "done"
                /\ exitStatus' = 0
                /\ UNCHANGED errMsg
    /\ UNCHANGED <<prog, env, ext, stdout, user_data_b64, stdin_read, user_data>>
    /\ UNCHANGED provVars
    /\ UNCHANGED selVars

WrNext ==
    \/ WrArgs
    \/ WrReadPayload
    \/ WrDecode
    \/ WrWrite

-----------------------------------------------------------------------------
(* The specification: one run of one of the three scripts *)

Init == ProvInit \/ SelInit \/ WrInit

Next == ProvNext \/ SelNext \/ WrNext

Spec == Init /\ [][Next]_vars

-----------------------------------------------------------------------------
(* Properties of the Provisioner's candidate loop *)

\* The run is the Provisioner's, in multi-attempt mode: CANDIDATES_FILE
\* names a file that exists.
MultiMode == prog = "provisioner" /\ Truthy(env.CANDIDATES_FILE) /\ file # <<>>

\* The run is the Provisioner's, without a usable candidate file.
SingleMode == prog = "provisioner" /\ ~(Truthy(env.CANDIDATES_FILE) /\ file # <<>>)

\* The latest creation call: its command, the attempt it belongs to, the
\* place of its disk category in the order the spec gives, and its answer;
\* whether its process ended, and whether it was a success (an identifier
\* can be extracted only from output that is text).
LastCall == calls[Len(calls)]
LastAnswer == last[1]
DiskOrder == <<"cloud_essd", "cloud_ssd", "cloud_efficiency">>
DiskPlace(category) == CHOOSE d \in 1..Len(DiskOrder) : DiskOrder[d] = category
LastDisk == DiskPlace(LastCall.cmd.SystemDiskCategory)
LastEnded == ~LastAnswer.hangs
LastAccepted ==
    /\ LastEnded /\ LastAnswer.decodes
    /\ Accepted(LastAnswer.exit_code, LastAnswer.response)

\* Every candidate strictly between attempts a and b has no subnet (it is
\* skipped without a creation call).
SkippedBetween(a, b) ==
    \A i \in (a + 1)..(b - 1) : i <= Len(candidates) => candidates[i].vswitch_id = ""

\* The candidate loop has left attempt a for the next candidate of the file.
MovedPast(a) == candIdx > a /\ diskIdx = 1 /\ SkippedBetween(a, candIdx)

\* C1, state part: in multi-attempt mode the latest creation call is a
\* success (exit code 0 and an extractable instance identifier, the literal
\* "null" and the empty string being no identifier) exactly when the run has
\* ended with status 0 and that identifier as its only line of stdout.
C1_SuccessIffExit ==
    (MultiMode /\ last # <<>>) =>
        (LastAccepted <=>
            /\ pc = "done"
            /\ exitStatus = 0
            /\ stdout = <<ExtractInstanceId(LastAnswer.response)>>)

\* C1, step part: once a creation call has succeeded no external process,
\* and so no creation call, is started.
C1_NoCallAfterSuccess ==
    (MultiMode /\ last # <<>> /\ LastAccepted) => (calls' = calls /\ ext' = ext)

\* C1: in multi-attempt mode a creation call is a success iff it returns
\* exit code 0 and an instance identifier can be extracted; at the first
\* success the identifier is printed, the run exits 0 and no creation call
\* follows.
C1_FirstSuccessEndsRun == [](C1_SuccessIffExit) /\ [][C1_NoCallAfterSuccess]_vars

\* C1 witness: a multi-attempt run that succeeded on its third call.
C1_Witness ==
    /\ MultiMode /\ pc = "done" /\ exitStatus = 0
    /\ Len(calls) = 3 /\ LastAccepted
    /\ stdout = <<"i-bbb">>

\* The latest call ended in a failure whose answer lacks the
\* unsupported-disk text.
LastOtherFailure ==
    /\ last # <<>> /\ LastEnded
    /\ ~LastAccepted
    /\ ~UnsupportedDiskText(LastAnswer.response)

\* C2: in multi-attempt mode every failure of a creation call that is not
\* recognised as "unsupported disk category" ends the disk-category loop of
\* its candidate: no further disk category is tried for it, and the loop is
\* at the next candidate of the file.
C2_OtherFailure ==
    (MultiMode /\ LastOtherFailure) => MovedPast(LastCall.attempt)

\* The latest call ended in a failure with the unsupported-disk text in its
\* answer.
LastUnsupported ==
    /\ last # <<>> /\ LastEnded
    /\ ~LastAccepted
    /\ UnsupportedDiskText(LastAnswer.response)

\* C3, state part: after an unsupported-disk failure the loop stands at the
\* same candidate and the next disk category, and leaves the candidate only
\* when the failure was on the last category.
C3_NextPosition ==
    (MultiMode /\ LastUnsupported) =>
        IF LastDisk < 3
        THEN /\ pc = "multi"
             /\ candIdx = LastCall.attempt
             /\ DiskCategories[diskIdx] = DiskOrder[LastDisk + 1]
        ELSE MovedPast(LastCall.attempt)

\* C3, step part: the creation call that follows an unsupported-disk
\* failure on category d < 3 is for the same candidate with category d + 1.
C3_NextCall ==
    (MultiMode /\ LastUnsupported /\ LastDisk < 3 /\ Len(calls') > Len(calls)) =>
        LET next == calls'[Len(calls')]
        IN  /\ next.attempt = LastCall.attempt
            /\ next.cmd.InstanceType = LastCall.cmd.InstanceType
            /\ next.cmd.VSwitchId = LastCall.cmd.VSwitchId
            /\ next.cmd.SystemDiskCategory = DiskOrder[LastDisk + 1]

\* C3: an unsupported-disk failure is followed by a call for the same
\* candidate with the next category of cloud_essd, cloud_ssd,
\* cloud_efficiency; only after the last one is the next candidate tried.
C3_UnsupportedDiskAdvances == [](C3_NextPosition) /\ [][C3_NextCall]_vars

\* C4: when the entries before entry k all have a subnet and every failing
\* answer they got carried the unsupported-disk text, and entry k succeeds
\* on its j-th disk category, exactly 3*(k-1)+j creation calls were made,
\* the identifier returned for entry k is printed and the run exits 0.
C4_CallCount ==
    (/\ MultiMode /\ last # <<>> /\ LastAccepted
     /\ \A i \in 1..LastCall.attempt : candidates[i].vswitch_id # ""
     /\ otherFail \cap (1..(LastCall.attempt - 1)) = {}) =>
        /\ Len(calls) = 3 * (LastCall.attempt - 1) + LastDisk
        /\ stdout = <<ExtractInstanceId(LastAnswer.response)>>
        /\ pc = "done" /\ exitStatus = 0

\* C4 witness: the stated case, k = 3 and j = 2, eight calls.
C4_Witness ==
    /\ MultiMode /\ pc = "done" /\ exitStatus = 0
    /\ Len(candidates) = 3 /\ LastCall.attempt = 3 /\ LastDisk = 2
    /\ otherFail = {}
    /\ Len(calls) = 8

\* C5: in multi-attempt mode, when every candidate has ended its
\* disk-category loop without a success, the run exits 1 with the exhaustion
\* message, and the attempt count of the message is the number of
\* (candidate, disk-category) creation calls made.
C5_ExhaustionCount ==
    (MultiMode /\ pc = "done" /\ candIdx > Len(candidates)) =>
        /\ exitStatus = 1
        /\ errMsg # <<>> /\ errMsg[1].kind = "exhausted"
        /\ errMsg[1].count = Len(calls)

-----------------------------------------------------------------------------
(* Properties of the Provisioner's output, single-attempt mode and set-up *)

\* C6: the Provisioner prints exactly one line, the created instance's
\* identifier, on a run that exits 0, prints nothing on any other run, and
\* every failing run exits with status 1.
C6_StdoutContract ==
    prog = "provisioner" =>
        /\ pc # "done" => (stdout = <<>> /\ exitStatus = -1)
        /\ pc = "done" => exitStatus \in {0, 1}
        /\ (pc = "done" /\ exitStatus = 0) =>
              /\ last # <<>> /\ LastAccepted
              /\ stdout = <<ExtractInstanceId(LastAnswer.response)>>
        /\ (pc = "done" /\ exitStatus # 0) => stdout = <<>>

\* C6 witness: a single-attempt run that printed its instance and exited 0.
C6_Witness ==
    /\ SingleMode /\ pc = "done" /\ exitStatus = 0
    /\ stdout = <<"i-aaa">>

\* C7: single-attempt mode runs the disk-category loop on the configured
\* instance type and subnet, decides on each answer as multi-attempt mode
\* does, and when no category gives a success exits 1 with the response of
\* its last creation call in the message.
C7_SingleAttempt ==
    (SingleMode /\ last # <<>>) =>
        LET decision == MultiOutcome(LastAnswer.exit_code, LastAnswer.response)
            returned == LastEnded /\ LastAnswer.decodes
        IN  /\ \A n \in 1..Len(calls) :
                  /\ calls[n].cmd.InstanceType = env.INSTANCE_TYPE
                  /\ calls[n].cmd.VSwitchId = env.ALIYUN_VSWITCH_ID
                  /\ calls[n].cmd.SystemDiskCategory = DiskOrder[n]
            /\ LastAccepted <=>
                  /\ pc = "done" /\ exitStatus = 0
                  /\ stdout = <<ExtractInstanceId(LastAnswer.response)>>
            /\ returned =>
                  /\ decision = "success" <=> LastAccepted
                  /\ (LastUnsupported /\ LastDisk < 3) => decision = "next_disk"
                  /\ (decision = "next_disk" /\ LastDisk < 3) =>
                        (pc = "single" /\ diskIdx = LastDisk + 1)
                  /\ (decision = "break" \/ (decision = "next_disk" /\ LastDisk = 3)) =>
                        (pc \in {"single_end", "done"} /\ exitStatus # 0)
            /\ (pc = "done" /\ exitStatus # 0) =>
                  /\ exitStatus = 1
                  /\ errMsg[1].kind = "all_disks"
                  /\ errMsg[1].text = <<LastAnswer.response>>

\* The variables the spec calls required everywhere.
NamedRequiredProv ==
    {"ALIYUN_ACCESS_KEY_ID", "ALIYUN_ACCESS_KEY_SECRET", "ALIYUN_REGION_ID",
     "ALIYUN_VPC_ID", "ALIYUN_SECURITY_GROUP_ID", "INSTANCE_NAME"}
NamedRequiredSel ==
    {"ALIYUN_ACCESS_KEY_ID", "ALIYUN_ACCESS_KEY_SECRET", "ALIYUN_REGION_ID"}

\* The run ended at a variable reported as required.
EndedAtRequired == pc = "done" /\ errMsg # <<>> /\ errMsg[1].kind = "required"

\* C8 as stated: a run that ends at a missing required variable (instance
\* type and subnet of single-attempt mode included) has exit status 1 and
\* has started no external process.
C8_Original == EndedAtRequired => (exitStatus = 1 /\ ext = <<>>)

\* C8 amended: a missing credential, region, VPC, security group or
\* instance name (Selector: credential or region) ends the run with status
\* 1 before any external process is started; a missing instance type or
\* subnet in single-attempt mode ends it with status 1 before any creation
\* call, but after the image lookup and the CLI checks.
C8_MissingVariable ==
    /\ (prog = "provisioner" /\ pc # "start" /\ ~(NamedRequiredProv \subseteq env.set)) =>
          (EndedAtRequired /\ exitStatus = 1 /\ ext = <<>>)
    /\ (prog = "selector" /\ pc # "start" /\ ~(NamedRequiredSel \subseteq env.set)) =>
          (EndedAtRequired /\ exitStatus = 1 /\ ext = <<>>)
    /\ (SingleMode /\ (~Truthy(env.INSTANCE_TYPE) \/ ~Truthy(env.ALIYUN_VSWITCH_ID))) =>
          /\ calls = <<>>
          /\ pc \notin {"single", "single_end", "multi"}
          /\ pc = "done" => exitStatus = 1
    /\ (EndedAtRequired /\ errMsg[1].var \in {"INSTANCE_TYPE", "ALIYUN_VSWITCH_ID"}) =>
          /\ exitStatus = 1
          /\ calls = <<>>
          /\ "aliyun --version" \in {ext[n] : n \in 1..Len(ext)}

\* C8 witness: single-attempt mode without INSTANCE_TYPE, ended after the
\* family lookup and the two CLI checks.
C8_Witness ==
    /\ SingleMode /\ EndedAtRequired
    /\ errMsg[1].var = "INSTANCE_TYPE"
    /\ ext = <<"DescribeImageFromFamily", "aliyun --version", "aliyun configure get">>
    /\ calls = <<>>

\* The family lookup gave an image: exit code 0 and a JSON object whose
\* Image object has a non-empty ImageId.
LookupSucceeded(res) ==
    /\ ~res.raised /\ res.seconds <= 30 /\ res.decodes /\ res.rc = 0
    /\ res.out = "json"
    /\ res.data = "dict" /\ res.image = "dict" /\ res.imageId # ""

\* The run ended at one of the variables that are read before the image is
\* resolved.
EndedBeforeImage ==
    EndedAtRequired /\ errMsg[1].var \notin {"INSTANCE_TYPE", "ALIYUN_VSWITCH_ID"}

\* C9: a family is looked up exactly when one is configured; when the
\* lookup succeeds every creation call uses the image it returned; when no
\* family is configured or the lookup fails (non-zero exit, timeout,
\* unparseable or empty result) the run goes on with the configured image
\* ID, which every creation call uses; with neither the run exits 1 without
\* a creation call.
C9_ImageResolution ==
    (prog = "provisioner" /\ pc \notin {"start", "image"} /\ ~EndedBeforeImage) =>
        LET familyGave == lookup # <<>> /\ LookupSucceeded(lookup[1])
        IN  /\ pc # "done" => (lookup # <<>> <=> Truthy(env.ALIYUN_IMAGE_FAMILY))
            /\ familyGave =>
                  \A n \in 1..Len(calls) : calls[n].cmd.ImageId = lookup[1].imageId
            /\ (~familyGave /\ Truthy(env.ALIYUN_IMAGE_ID)) =>
                  /\ image_id = env.ALIYUN_IMAGE_ID
                  /\ \A n \in 1..Len(calls) : calls[n].cmd.ImageId = env.ALIYUN_IMAGE_ID
            /\ (~familyGave /\ ~Truthy(env.ALIYUN_IMAGE_ID)) =>
                  (calls = <<>> /\ pc = "done" /\ exitStatus = 1)

-----------------------------------------------------------------------------
(* Properties of the Selector's strategy loop *)

\* The advisor ran and printed a non-empty, well-formed JSON array.
GoodArray(res) ==
    /\ res.raised = "no" /\ ~res.hangs /\ res.rc = 0
    /\ res.out = "json" /\ res.data = "list" /\ Len(res.offers) > 0

\* C10, state part: the n-th query is the n-th strategy's; a query that
\* returned a non-empty array ends the loop with that array as the result;
\* any other return moves to the next strategy, and after the last one the
\* run exits 1; a query that does not return leaves the loop at its strategy,
\* without a result and without an exit status.
C10_LoopState ==
    (prog = "selector" /\ params # <<>>) =>
        /\ Len(queries) <= Len(query_strategies)
        /\ \A n \in 1..Len(queries) :
              queries[n] = QueryCommand(query_strategies[n], params[1])
        /\ lastAdv = <<>> => (pc = "query" /\ stratIdx = 1 /\ queries = <<>>)
        /\ (lastAdv # <<>> /\ GoodArray(lastAdv[1])) =>
              /\ pc # "query"
              /\ json_result = <<lastAdv[1].offers>>
              /\ errMsg = <<>> \/ errMsg[1].kind # "no_results"
        /\ (lastAdv # <<>> /\ lastAdv[1].hangs) =>
              /\ pc = "blocked" /\ stratIdx = Len(queries)
              /\ json_result = <<>> /\ exitStatus = -1 /\ errMsg = <<>>
        /\ (lastAdv # <<>> /\ ~GoodArray(lastAdv[1]) /\ ~lastAdv[1].hangs) =>
              /\ json_result = <<>>
              /\ \/ pc = "query" /\ stratIdx = Len(queries) + 1
                 \/ pc = "done" /\ exitStatus = 1
              /\ (pc = "done" /\ lastAdv[1].raised # "OSError") =>
                    /\ errMsg[1].kind = "no_results"
                    /\ Len(queries) = Len(query_strategies)

\* C10, step part: after a query that returned a non-empty array no
\* advisor query is issued.
C10_NoQueryAfterResult ==
    (prog = "selector" /\ lastAdv # <<>> /\ GoodArray(lastAdv[1])) =>
        (queries' = queries /\ ext' = ext)

\* C10: the Selector queries the advisor strategy by strategy in list
\* order, stops at the first non-empty well-formed JSON array, and exits 1
\* when no strategy returns one.
C10_StrategyLoop == [](C10_LoopState) /\ [][C10_NoQueryAfterResult]_vars

\* C10 witness: the third strategy of five returned offers after two that
\* returned none.
C10_Witness ==
    /\ prog = "selector"
    /\ Len(query_strategies) = 5
    /\ Len(queries) = 3
    /\ lastAdv # <<>> /\ GoodArray(lastAdv[1])
    /\ pc = "filter"

-----------------------------------------------------------------------------
(* Properties of the Selector's parameters *)

\* The configured value of a numeric variable, dflt when it is unset or blank.
Configured(v, dflt) == IF v.text = "num" THEN v.n ELSE dflt

\* The architecture a run is configured with.
ConfiguredArch == IF env.ARCH = None THEN "amd64" ELSE env.ARCH

\* The entries of the strategy list of the spec, each with the condition
\* under which it is in the list.
StrategyTable(arch, lo, hi) ==
    IF arch = "amd64"
    THEN << <<TRUE, [cpu |-> lo, mem |-> lo, exact |-> TRUE, desc |-> "1:1"]>>,
            <<lo <= 32, [cpu |-> lo, mem |-> 2 * lo, exact |-> TRUE, desc |-> "1:2"]>>,
            <<lo < 16, [cpu |-> 16, mem |-> 16, exact |-> TRUE, desc |-> "1:1"]>>,
            <<lo < 16, [cpu |-> 16, mem |-> 32, exact |-> TRUE, desc |-> "1:2"]>>,
            <<TRUE, [cpu |-> lo, mem |-> hi, exact |-> FALSE, desc |-> "range"]>> >>
    ELSE << <<TRUE, [cpu |-> lo, mem |-> 2 * lo, exact |-> TRUE, desc |-> "1:2"]>>,
            <<TRUE, [cpu |-> lo, mem |-> hi, exact |-> FALSE, desc |-> "range"]>> >>

\* The entries of a table whose condition holds, in the table's order.
RECURSIVE Enabled(_)
Enabled(table) ==
    IF table = <<>> THEN <<>>
    ELSE (IF Head(table)[1] THEN <<Head(table)[2]>> ELSE <<>>) \o Enabled(Tail(table))

\* C11: once the parameters are validated, the strategy list is the one the
\* spec gives for the architecture, the minimum and the maximum CPU count.
C11_StrategyList ==
    (prog = "selector" /\ params # <<>>) =>
        query_strategies =
            Enabled(StrategyTable(ConfiguredArch, Configured(env.MIN_CPU, 8),
                                  Configured(env.MAX_CPU, 64)))

\* C11 witness: amd64 with a minimum of 32 cores: 1:1, 1:2 and the range.
C11_Witness ==
    /\ prog = "selector" /\ params # <<>>
    /\ ConfiguredArch = "amd64"
    /\ Configured(env.MIN_CPU, 8) = 32
    /\ Len(query_strategies) = 3
    /\ query_strategies[2].mem = 64

\* The run's configuration is one the Selector must refuse: the
\* architecture, a CPU or memory range with min > max, or no advisor file.
Refused ==
    LET lo == Configured(env.MIN_CPU, 8)
        hi == Configured(env.MAX_CPU, 64)
        mlo == Configured(env.MIN_MEM, IF ConfiguredArch = "arm64" THEN 2 * lo ELSE lo)
        mhi == Configured(env.MAX_MEM, IF ConfiguredArch = "arm64" THEN 128 ELSE 64)
    IN  \/ ConfiguredArch \notin {"amd64", "arm64"}
        \/ ~env.advisor_is_file
        \/ lo > hi
        \/ mlo > mhi

\* C12: a run with an unsupported architecture, a missing advisor
\* executable, min CPU > max CPU or min memory > max memory ends with
\* status 1 at validation and issues no advisor query.
C12_FailFast ==
    (prog = "selector" /\ Refused) =>
        /\ queries = <<>> /\ ext = <<>>
        /\ pc \in {"start", "validate", "done"}
        /\ pc = "done" => exitStatus = 1

\* C12 witness: the default memory range of amd64 refused (32 > 16) with
\* the CPU range in order.
C12_Witness ==
    /\ prog = "selector" /\ pc = "done" /\ exitStatus = 1
    /\ errMsg[1].kind = "mem_range"
    /\ queries = <<>>


(***************************************************************************)
(* Properties of the Selector's result *)
(***************************************************************************)

\* The Selector ended with status 0.
SelSucceeded == prog = "selector" /\ pc = "done" /\ exitStatus = 0

\* The offers of the accepted answer that pass filtering, as candidate
\* tuples, in the advisor's order.
RECURSIVE Passing(_)
Passing(instances) ==
    IF instances = <<>> THEN <<>>
    ELSE FilterOne(Head(instances), params[1].min_cpu, params[1].min_mem, params[1].arch).cand
             \o Passing(Tail(instances))

\* The candidates of a sequence whose zone resolves to a subnet, in order.
RECURSIVE Resolvable(_)
Resolvable(cands) ==
    IF cands = <<>> THEN <<>>
    ELSE (IF Truthy(GetVswitchId(Head(cands).zone_id, env.subnets)) THEN <<Head(cands)>> ELSE <<>>)
             \o Resolvable(Tail(cands))

\* The first n elements of a sequence.
FirstN(seq, n) == SubSeq(seq, 1, IF Len(seq) < n THEN Len(seq) ELSE n)

\* The value printed to stdout under a key.
Reported(k) == stdout[CHOOSE i \in 1..Len(stdout) : stdout[i].key = k].value

\* The keys printed to stdout, in order.
ReportedKeys == [i \in 1..Len(stdout) |-> stdout[i].key]

\* The fields of a line of the candidate file, between the separators.
FieldsOf(line) == <<line[1], line[3], line[5], line[7], line[9]>>

\* The record expected of a candidate: its type, zone, the subnet of its
\* zone, the price ceiling of its own price and CPU count, its CPU count.
ExpectedRecord(cand) ==
    <<cand.instance_type, cand.zone_id, GetVswitchId(cand.zone_id, env.subnets),
      SpotPriceLimitText(cand.price_per_core, cand.cpu_cores), IntStr(cand.cpu_cores)>>

\* C13: when the Selector reports a result, the primary on stdout is the
\* first offer, in the advisor's order, that passes filtering and whose zone
\* resolves to a subnet; the candidate file holds at most 5 records, which
\* are the subnet-resolvable ones of the first five passing offers, in the
\* advisor's order, each with the price ceiling of its own price.
C13_PrimaryAndFile ==
    SelSucceeded =>
        \E pas \in {Passing(json_result[1])} :
            LET res == Resolvable(pas)
                kept == Resolvable(FirstN(pas, 5))
                lines == written[1]
            IN  /\ res # <<>>
                /\ <<Reported("INSTANCE_TYPE"), Reported("ZONE_ID"), Reported("VSWITCH_ID"),
                     Reported("SPOT_PRICE_LIMIT"), Reported("CPU_CORES")>> = ExpectedRecord(res[1])
                /\ Len(lines) <= 5
                /\ Len(lines) = Len(kept)
                /\ \A i \in 1..Len(lines) : FieldsOf(lines[i]) = ExpectedRecord(kept[i])

\* More than five offers pass, the first of them is in a zone without a
\* subnet, and the file holds two records with different price ceilings.
C13_Witness ==
    /\ SelSucceeded
    /\ Len(Passing(json_result[1])) > 5
    /\ ~Truthy(GetVswitchId(Passing(json_result[1])[1].zone_id, env.subnets))
    /\ Reported("ZONE_ID") = "cn-hangzhou-j"
    /\ Len(written[1]) = 2
    /\ written[1][1][7] # written[1][2][7]


\* The price-ceiling numerals of the candidate file that are not above 0.
NonPositiveCeilings ==
    {Fixed4(n) : n \in {0 - 76800, 0 - 38400, 0 - 19200, 0 - 9600, 0 - 4800, 0 - 2400, 0}}

\* C14: every record of the candidate file has a non-empty subnet identifier
\* and a price ceiling greater than 0, whatever the advisor answered.
C14_RecordsValid ==
    (prog = "selector" /\ written # <<>>) =>
        \A i \in 1..Len(written[1]) :
            /\ Truthy(FieldsOf(written[1][i])[3])
            /\ FieldsOf(written[1][i])[4] \notin NonPositiveCeilings


\* The core count each type name of the catalogue stands for: 4 per xlarge
\* unit, 2 for .large and .medium, none for the other names.
ExpectedCores(name) ==
    CASE name = "ecs.c7.2xlarge" -> Some(8)
      [] name = "ecs.g7.4xlarge" -> Some(16)
      [] name = "ecs.g7.16xlarge" -> Some(64)
      [] name = "ecs.c7.xlarge" -> Some(4)
      [] name = "ecs.c7.large" -> Some(2)
      [] name = "ecs.t6.medium" -> Some(2)
      [] OTHER -> <<>>

\* An offer's type, zone and price texts.
OfferType(o) == GetFieldValue(o, <<"instanceTypeId", "instance_type", "InstanceType">>)
OfferZone(o) == GetFieldValue(o, <<"zoneId", "zone_id", "ZoneId">>)
OfferPrice(o) ==
    GetFieldValue(o, <<"pricePerCore", "price_per_core", "PricePerCore", "price", "Price">>)

\* An offer's CPU count: the one read from its CPU field when that is an
\* integer, otherwise the one derived from its type name; <<>> when neither.
OfferCpu(o) ==
    LET t == GetFieldValue(o, <<"cpuCoreCount", "cpu_cores", "CpuCores", "cores", "Cores">>)
    IN  IF Truthy(t) /\ CpuOfText(t) # <<>> THEN CpuOfText(t) ELSE ExpectedCores(OfferType(o))

\* An offer's memory: the one read from its memory field when that is a
\* number, otherwise its CPU count times the architecture's ratio.
OfferMem(o, arch) ==
    LET t == GetFieldValue(o, <<"memorySize", "memory_size", "MemorySize", "memory", "Memory">>)
    IN  IF Truthy(t) /\ MemOfText(t) # <<>> THEN MemOfText(t)[1]
        ELSE OfferCpu(o)[1] * (IF arch = "arm64" THEN 2 ELSE 1)

\* The offer lacks a type, a zone or a price.
LacksField(o) == ~Truthy(OfferType(o)) \/ ~Truthy(OfferZone(o)) \/ ~Truthy(OfferPrice(o))

\* The offer must not be selected: it lacks a field, or its CPU count or its
\* memory is below the minimum.
Unfit(o) ==
    \/ LacksField(o)
    \/ OfferCpu(o) = <<>>
    \/ OfferCpu(o)[1] < params[1].min_cpu
    \/ OfferMem(o, params[1].arch) < params[1].min_mem

\* The record (type, zone, subnet, ceiling, cores) is the one of the offer.
RecordOf(rec, o) ==
    /\ ~LacksField(o) /\ OfferCpu(o) # <<>> /\ PriceOfText(OfferPrice(o)) # <<>>
    /\ rec[1] = OfferType(o)
    /\ rec[2] = OfferZone(o)
    /\ rec[4] = SpotPriceLimitText(PriceOfText(OfferPrice(o))[1], OfferCpu(o)[1])
    /\ rec[5] = IntStr(OfferCpu(o)[1])

\* The primary on stdout and the records of the candidate file.
SelectedRecords ==
    {<<Reported("INSTANCE_TYPE"), Reported("ZONE_ID"), Reported("VSWITCH_ID"),
       Reported("SPOT_PRICE_LIMIT"), Reported("CPU_CORES")>>}
        \cup {FieldsOf(written[1][i]) : i \in 1..Len(written[1])}

\* C15: the primary on stdout and every record of the candidate file is the
\* record of an offer that has a type, a zone and a price, whose CPU count
\* (read or derived) is at least the minimum CPU and whose memory (read or
\* estimated) is at least the minimum memory; no other offer is selected.
C15_OnlyFitOffers ==
    SelSucceeded =>
        \A rec \in SelectedRecords :
            \E i \in 1..Len(json_result[1]) :
                RecordOf(rec, json_result[1][i]) /\ ~Unfit(json_result[1][i])

\* A result was reported although the answer held an offer with too few
\* cores and an offer with enough cores but too little memory.
C15_Witness ==
    /\ SelSucceeded
    /\ \E i \in 1..Len(json_result[1]) :
          LET o == json_result[1][i]
          IN  ~LacksField(o) /\ OfferCpu(o) # <<>> /\ OfferCpu(o)[1] < params[1].min_cpu
    /\ \E i \in 1..Len(json_result[1]) :
          LET o == json_result[1][i]
          IN  /\ ~LacksField(o) /\ OfferCpu(o) # <<>> /\ OfferCpu(o)[1] >= params[1].min_cpu
              /\ OfferMem(o, params[1].arch) < params[1].min_mem


\* No offer of the accepted answer passes filtering, or none of the (at most
\* five) filtered candidates is in a zone with a subnet.
NothingSelectable == Resolvable(FirstN(Passing(json_result[1]), 5)) = <<>>

\* C16: when the Selector has ended on an accepted answer none of whose
\* offers passes filtering, or none of whose filtered candidates has a
\* subnet, its status is 1, stdout has no line and no candidate file exists;
\* a candidate file exists only when the run has ended with status 0.
C16_NothingOnFailure ==
    prog = "selector" =>
        /\ (pc = "done" /\ json_result # <<>> /\ NothingSelectable) =>
               (exitStatus = 1 /\ stdout = <<>> /\ written = <<>>)
        /\ written # <<>> => (pc = "done" /\ exitStatus = 0)
        /\ stdout # <<>> => (pc = "done" /\ exitStatus = 0 /\ written # <<>>)

\* The run ended with status 1 and no file on an answer whose offers pass
\* filtering but are all in zones without a subnet.
C16_Witness ==
    /\ prog = "selector" /\ pc = "done" /\ exitStatus = 1
    /\ json_result # <<>>
    /\ Passing(json_result[1]) # <<>>
    /\ NothingSelectable
    /\ errMsg # <<>> /\ errMsg[1].kind = "no_vswitch"
    /\ written = <<>> /\ stdout = <<>>


\* The subnet variable the zones of the catalogue stand for: the prefix and
\* the upper-cased last letter of a zone that ends in a lowercase letter,
\* <<>> for a zone that does not.
ExpectedSubnetVariable(zone) ==
    CASE zone = "cn-hangzhou-k" -> <<SubnetVar("K")>>
      [] zone = "cn-hangzhou-j" -> <<SubnetVar("J")>>
      [] zone = "cn-hangzhou-h" -> <<SubnetVar("H")>>
      [] zone = "ap-southeast-1a" -> <<SubnetVar("A")>>
      [] OTHER -> <<>>

\* C17: the subnet of every zone that ends in a lowercase letter is the value
\* of the variable ALIYUN_VSWITCH_ID_ followed by that letter upper-cased;
\* every zone that does not end in a lowercase letter has no subnet.
C17_ZoneToVariable ==
    (prog = "selector" /\ pc = "done" /\ json_result # <<>>) =>
        \A i \in 1..Len(json_result[1]) :
            LET zone == OfferZone(json_result[1][i])
                var == ExpectedSubnetVariable(zone)
            IN  Truthy(zone) =>
                    GetVswitchId(zone, env.subnets) =
                        (IF var = <<>> THEN None ELSE EnvGet(env.subnets, var[1]))


\* The offer has a CPU field that reads as an integer.
HasUsableCpu(o) ==
    LET t == GetFieldValue(o, <<"cpuCoreCount", "cpu_cores", "CpuCores", "cores", "Cores">>)
    IN  Truthy(t) /\ CpuOfText(t) # <<>>

\* C18: the count derived from a type name is 4 N for a name ending in
\* .<N>xlarge, 4 for .xlarge, 2 for .large and .medium, and undetermined for
\* every other name; an offer without a usable CPU field whose type name
\* gives no count is neither reported nor persisted, and one whose type name
\* gives a count is selected with that count.
C18_CpuDerivation ==
    (prog = "selector" /\ pc = "done" /\ json_result # <<>>) =>
        /\ \A i \in 1..Len(json_result[1]) :
              Truthy(OfferType(json_result[1][i])) =>
                  ParseCpuFromInstanceType(OfferType(json_result[1][i]))
                      = ExpectedCores(OfferType(json_result[1][i]))
        /\ exitStatus = 0 =>
              \A rec \in SelectedRecords :
                  \E i \in 1..Len(json_result[1]) :
                      /\ RecordOf(rec, json_result[1][i])
                      /\ HasUsableCpu(json_result[1][i])
                            \/ ExpectedCores(OfferType(json_result[1][i])) # <<>>

\* A result was reported on an answer with offers whose type names give no
\* count (.small, -2xlarge, .2XLARGE) and no usable CPU field, and the
\* primary's count is the one derived from its type name.
C18_Witness ==
    /\ SelSucceeded
    /\ \E i, j, k \in 1..Len(json_result[1]) :
          /\ OfferType(json_result[1][i]) = "ecs.c7.small"
          /\ OfferType(json_result[1][j]) = "ecs.c7-2xlarge"
          /\ OfferType(json_result[1][k]) = "ecs.c7.2XLARGE"
          /\ ~HasUsableCpu(json_result[1][i]) /\ ~HasUsableCpu(json_result[1][j])
          /\ ~HasUsableCpu(json_result[1][k])
    /\ Reported("INSTANCE_TYPE") = "ecs.g7.4xlarge"
    /\ Reported("CPU_CORES") = "16"
    /\ \A i \in 1..Len(json_result[1]) : ~HasUsableCpu(json_result[1][i])


(***************************************************************************)
(* Properties of the candidate file between Selector and Provisioner *)
(***************************************************************************)

\* The tuple the Selector holds of a candidate it persists.
SelectorTuple(cand) ==
    [instance_type |-> cand.instance_type, zone_id |-> cand.zone_id,
     vswitch_id |-> GetVswitchId(cand.zone_id, env.subnets),
     spot_price_limit |-> SpotPriceLimitText(cand.price_per_core, cand.cpu_cores),
     cpu_cores |-> cand.cpu_cores]

\* The number of delimiters in a line.
PipeCount(line) == Cardinality({i \in 1..Len(line) : line[i] = "|"})

\* The line has at least four fields.
FourFields(line) == PipeCount(line) >= 3

\* The line has no fifth field, or nothing but the line end after the fourth
\* delimiter.
NoFifthField(line) ==
    \/ PipeCount(line) = 3
    \/ PipeCount(line) = 4 /\ line[Len(line) - 1] = "|" /\ line[Len(line)] = "\n"

\* C19: what parse_candidates_file reads from the file the Selector wrote is
\* the sequence of the tuples (type, zone, subnet, price ceiling, CPU count)
\* the Selector persisted, in the same order; in the Provisioner a line with
\* fewer than four fields gives no candidate, a line with four or more gives
\* one, and a missing or empty fifth field gives a candidate without a CPU
\* count.
C19_FileRoundTrip ==
    /\ SelSucceeded =>
          \E kept \in {Resolvable(FirstN(Passing(json_result[1]), 5))} :
              /\ ~ParseRaises(written[1])
              /\ ParseCandidatesFile(written[1]) = [i \in 1..Len(kept) |-> SelectorTuple(kept[i])]
    /\ (prog = "provisioner" /\ pc = "multi") =>
          LET lines == file[1]
              keptIdx == {i \in 1..Len(lines) : FourFields(lines[i])}
          IN  /\ Len(candidates) = Cardinality(keptIdx)
              /\ \A i \in keptIdx :
                    LET k == Cardinality({j \in keptIdx : j <= i})
                    IN  /\ candidates[k].instance_type \in {lines[i][1], lines[i][2]}
                        /\ (candidates[k].cpu_cores = 0) <=> NoFifthField(lines[i])

\* The Selector wrote three records with different types, price ceilings and
\* CPU counts behind each other, and they read back in that order.
C19_Witness ==
    /\ SelSucceeded
    /\ Len(written[1]) = 3
    /\ ParseCandidatesFile(written[1])[1].instance_type = "ecs.c7.xlarge"
    /\ ParseCandidatesFile(written[1])[1].cpu_cores = 4
    /\ ParseCandidatesFile(written[1])[1].spot_price_limit = "0.1920"
    /\ ParseCandidatesFile(written[1])[2].cpu_cores = 64
    /\ ParseCandidatesFile(written[1])[2].spot_price_limit = "4.6080"
    /\ ParseCandidatesFile(written[1])[3].spot_price_limit = "3.8400"


(***************************************************************************)
(* Properties of the UserData writer *)
(***************************************************************************)

\* The bytes each payload text of the catalogue stands for, <<>> for a text
\* that is not the base64 form of a UTF-8 text; the long ones are the payloads
\* of the boot scripts.
ExpectedBytes(text) ==
    CASE text = <<"a", "G", "k", "=">> -> <<<<104, 105>>>>
      [] text = <<"a", "G", "k", "K">> -> <<<<104, 105, 10>>>>
      [] text = <<"a", "\n", "G", "k", "=">> -> <<<<104, 105>>>>
      [] text = <<"w", "6", "k", "=">> -> <<<<195, 169>>>>
      [] text = <<"4", "p", "y", "T">> -> <<<<226, 156, 147>>>>
      [] text = <<"a", "G", "k", "=", "a", "G", "k", "=">> -> <<<<104, 105>>>>
      [] text = <<" ">> -> <<<<>>>>
      [] text = <<"I", "y", "E", "v", "Y", "m", "l", "u", "L", "2", "J", "h", "c", "2", "g", "K", "w", "6", "n", "i", "n", "J", "M", "K">> ->
             <<<<35, 33, 47, 98, 105, 110, 47, 98, 97, 115, 104, 10, 195, 169, 226, 156, 147, 10>>>>
      [] text = <<"I", "y", "E", "v", "Y", "m", "l", "u", "L", "2", "J", "h", "c", "2", "g", "K", "I", "w", "o", "h", "b", "H", "M", "=">> ->
             <<<<35, 33, 47, 98, 105, 110, 47, 98, 97, 115, 104, 10, 35, 10, 33, 108, 115>>>>
      [] text = <<"I", "y", "E", "v", "Y", "m", "l", "u", "L", "2", "J", "h", "c", "2", "g", "K", "b", "H", "M", "K", "c", "Q", "o", "=">> ->
             <<<<35, 33, 47, 98, 105, 110, 47, 98, 97, 115, 104, 10, 108, 115, 10, 113, 10>>>>
      [] text = <<"I", "y", "E", "v", "Y", "m", "l", "u", "L", "3", "N", "o", "C", "m", "x", "z", "C", "g", "=", "=">> ->
             <<<<35, 33, 47, 98, 105, 110, 47, 115, 104, 10, 108, 115, 10>>>>
      [] text = <<"I", "y", "E", "v", "Y", "m", "l", "u", "L", "2", "J", "h", "c", "2", "g", "K", "b", "H", "M", "=">> ->
             <<<<35, 33, 47, 98, 105, 110, 47, 98, 97, 115, 104, 10, 108, 115>>>>
      [] text = <<"I", "y", "E", "v", "Y", "m", "l", "u", "L", "2", "J", "h", "c", "2", "g", "K", "b", "H", "M", "K">> ->
             <<<<35, 33, 47, 98, 105, 110, 47, 98, 97, 115, 104, 10, 108, 115, 10>>>>
      [] text = <<"I", "y", "E", "K">> ->
             <<<<35, 33, 10>>>>
      [] OTHER -> <<>>

\* The payload the writer is given: the environment variable's text when it
\* is not empty, otherwise standard input without the blanks at its ends.
GivenPayload ==
    IF EnvGetText(env.USER_DATA_B64) # <<>> THEN EnvGetText(env.USER_DATA_B64)
    ELSE StripLine(env.stdin)

\* C20: a run of the UserData writer that has ended has a non-zero status
\* when no destination argument was given, status 1 and the 'empty' error
\* when neither USER_DATA_B64 nor standard input holds a payload, a non-zero
\* status when the payload does not decode, and a non-zero status when the
\* destination cannot be written; in every other case its status is 0, the
\* destination holds the decoded payload and the reported byte count is the
\* number of bytes written. A payload in USER_DATA_B64 is used without
\* standard input being read.
C20_WriterOutcome ==
    (prog = "writer" /\ pc = "done") =>
        LET expected == ExpectedBytes(GivenPayload)
        IN  /\ IF Len(env.argv) < 2
               THEN exitStatus # 0 /\ output = <<>> /\ report = <<>>
               ELSE IF GivenPayload = <<>>
               THEN /\ exitStatus = 1 /\ errMsg # <<>> /\ errMsg[1].kind = "empty"
                    /\ output = <<>> /\ report = <<>>
               ELSE IF expected = <<>>
               THEN exitStatus # 0 /\ output = <<>> /\ report = <<>>
               ELSE IF env.argv[2] \notin Writable
               THEN exitStatus # 0 /\ report = <<>>
               ELSE /\ exitStatus = 0
                    /\ output = expected
                    /\ report = <<[file |-> env.argv[2], file_size |-> Len(expected[1])]>>
            /\ EnvGetText(env.USER_DATA_B64) # <<>> => ~stdin_read

\* The writer ended with status 0 on a payload from USER_DATA_B64 while
\* standard input held another one; the text has one character of two bytes
\* and the reported count is 2.
C20_Witness ==
    /\ prog = "writer" /\ pc = "done" /\ exitStatus = 0
    /\ EnvGetText(env.USER_DATA_B64) = <<"w", "6", "k", "=">>
    /\ StripLine(env.stdin) = <<"a", "G", "k", "K">>
    /\ ~stdin_read
    /\ Len(user_data[1]) = 1
    /\ output = <<<<195, 169>>>>
    /\ report # <<>> /\ report[1].file_size = 2


-----------------------------------------------------------------------------
(* Properties of the boot script *)

\* The boot scripts the Provisioner passes on, prepared: the texts it encodes.
PreparedScripts ==
    { c[1] : c \in { PrepareUserData(b[1], b[2]) : b \in BootScripts } \ {<<>>, <<<<>>>>} }

\* The payload a finished run of the writer was given.
WriterPayload ==
    IF env.USER_DATA_B64 # <<>> /\ env.USER_DATA_B64[1] # <<>> THEN env.USER_DATA_B64[1]
    ELSE env.stdin

\* C21: round trip. For every boot script with "\n" line endings that the
\* Provisioner encodes, the writer given the encoded text (in the variable, or
\* on standard input followed by a line break) ends with status 0 and has
\* written a file whose bytes are the UTF-8 bytes of the script.
C21_RoundTrip ==
    (prog = "writer" /\ pc = "done" /\ env \in WrEnvsBoot) =>
        \A script \in PreparedScripts :
            WriterPayload \in {EncodeUserData(script), Append(EncodeUserData(script), "\n")} =>
                /\ exitStatus = 0
                /\ user_data = <<script>>
                /\ output = <<Utf8Encode(script)>>

\* A script with characters of two and three bytes has made the round trip.
C21_Witness ==
    /\ prog = "writer" /\ pc = "done" /\ env \in WrEnvsBoot
    /\ \E script \in PreparedScripts :
         /\ WriterPayload = EncodeUserData(script)
         /\ \E i \in 1..Len(script) : script[i] = 10003
         /\ output = <<<<35, 33, 47, 98, 105, 110, 47, 98, 97, 115, 104, 10,
                         195, 169, 226, 156, 147, 10>>>>


\* The boot script as it was given: the file's text when USER_DATA_FILE
\* names a file, else the text of USER_DATA.
RawScript ==
    IF env.USER_DATA_FILE # <<>> THEN env.USER_DATA_FILE[1]
    ELSE IF env.USER_DATA # <<>> THEN env.USER_DATA[1]
    ELSE <<>>

\* Each boot script of the catalogue with every "\r\n" and every lone "\r"
\* replaced by "\n".
ExpectedNormalized(raw) ==
    CASE raw = <<108, 115, 13, 10, 113, 13>> ->
             <<108, 115, 10, 113, 10>>
      [] raw = <<35, 33, 47, 98, 105, 110, 47, 115, 104, 10, 108, 115, 10>> ->
             <<35, 33, 47, 98, 105, 110, 47, 115, 104, 10, 108, 115, 10>>
      [] raw = <<35, 33, 47, 98, 105, 110, 47, 98, 97, 115, 104, 10, 108, 115>> ->
             <<35, 33, 47, 98, 105, 110, 47, 98, 97, 115, 104, 10, 108, 115>>
      [] raw = <<35, 13, 33, 108, 115>> ->
             <<35, 10, 33, 108, 115>>
      [] raw = <<233, 10003, 10>> ->
             <<233, 10003, 10>>
      [] raw = <<>> ->
             <<>>
      [] raw = <<35, 33, 13, 10>> ->
             <<35, 33, 10>>
      [] raw = <<>> ->
             <<>>
      [] raw = <<108, 115, 13>> ->
             <<108, 115, 10>>

\* The text a payload of a creation command is the base64 form of.
EncodedText(payload) == Utf8Decode(B64Decode(payload).bytes).chars

\* C22: whenever a creation call carries a boot script, the text that was
\* base64-encoded holds no carriage return and begins with "#!"; it is the
\* given script with "\r\n" and lone "\r" replaced by "\n", with the line
\* "#!/bin/bash" put before it exactly when that text did not begin with
\* "#!"; and preparing the encoded text again, given in USER_DATA or as a
\* file, yields the same text.
C22_PreparedScript ==
    prog = "provisioner" =>
        \A n \in 1..Len(calls) :
            calls[n].cmd.UserData # <<>> =>
                \E text \in {EncodedText(calls[n].cmd.UserData[1])} :
                    \E normalized \in {ExpectedNormalized(RawScript)} :
                        /\ \A i \in 1..Len(text) : text[i] # 13
                        /\ Len(text) >= 2 /\ text[1] = 35 /\ text[2] = 33
                        /\ text = IF Len(normalized) >= 2 /\ normalized[1] = 35
                                     /\ normalized[2] = 33
                                  THEN normalized
                                  ELSE <<35, 33, 47, 98, 105, 110, 47, 98, 97, 115, 104, 10>>
                                           \o normalized
                        /\ PrepareUserData(<<>>, <<text>>) = <<text>>
                        /\ PrepareUserData(<<text>>, <<>>) = <<text>>

\* A call carries a script that was given with "\r\n" and a lone "\r" and
\* without an interpreter line.
C22_Witness ==
    /\ prog = "provisioner" /\ Len(calls) >= 2
    /\ RawScript = <<108, 115, 13, 10, 113, 13>>
    /\ EncodedText(calls[2].cmd.UserData[1])
         = <<35, 33, 47, 98, 105, 110, 47, 98, 97, 115, 104, 10, 108, 115, 10, 113, 10>>


-----------------------------------------------------------------------------
(* Properties of the creation calls *)

\* The price ceiling the n-th creation call was issued for: the candidate's
\* in multi-candidate mode, the configured one in single-attempt mode.
CeilingOf(n) ==
    IF MultiMode THEN candidates[calls[n].attempt].spot_price_limit
    ELSE env.SPOT_PRICE_LIMIT

\* C23: every creation call carries one spot strategy: SpotWithPriceLimit
\* together with the price ceiling when the candidate (in single-attempt mode,
\* the configuration) has a non-empty price ceiling, SpotAsPriceGo without a
\* price ceiling otherwise; the calls made for one candidate all carry the
\* same strategy and ceiling.
C23_SpotStrategy ==
    prog = "provisioner" =>
        \A n \in 1..Len(calls) :
            /\ IF CeilingOf(n) \notin {None, ""}
               THEN /\ calls[n].cmd.SpotStrategy = "SpotWithPriceLimit"
                    /\ calls[n].cmd.SpotPriceLimit = CeilingOf(n)
               ELSE /\ calls[n].cmd.SpotStrategy = "SpotAsPriceGo"
                    /\ calls[n].cmd.SpotPriceLimit = None
            /\ \A m \in 1..Len(calls) :
                 calls[m].attempt = calls[n].attempt =>
                     /\ calls[m].cmd.SpotStrategy = calls[n].cmd.SpotStrategy
                     /\ calls[m].cmd.SpotPriceLimit = calls[n].cmd.SpotPriceLimit

\* A candidate with a ceiling was tried with two disk categories and then a
\* candidate without a ceiling was tried.
C23_Witness ==
    /\ MultiMode /\ Len(calls) = 3
    /\ calls[1].attempt = 1 /\ calls[2].attempt = 1 /\ calls[3].attempt = 2
    /\ calls[1].cmd.SpotStrategy = "SpotWithPriceLimit"
    /\ calls[2].cmd.SpotPriceLimit = "0.4800"
    /\ calls[2].cmd.SystemDiskCategory = "cloud_ssd"
    /\ calls[3].cmd.SpotStrategy = "SpotAsPriceGo"
    /\ candidates[2].spot_price_limit = ""


-----------------------------------------------------------------------------
(* Properties of the price ceiling *)

\* price * cores * 1.2 with four decimals, for the prices (in millionths) and
\* CPU counts of the offers: <<price, cores, the numeral, its value in
\* ten-thousandths>>.
CeilingTable ==
    { <<-100000, 4, "-0.4800", -4800>>, <<-100000, 8, "-0.9600", -9600>>, <<-100000, 16, "-1.9200", -19200>>,
      <<-100000, 32, "-3.8400", -38400>>, <<-100000, 64, "-7.6800", -76800>>, <<0, 4, "0.0000", 0>>,
      <<0, 8, "0.0000", 0>>, <<0, 16, "0.0000", 0>>, <<0, 32, "0.0000", 0>>,
      <<0, 64, "0.0000", 0>>, <<10, 4, "0.0000", 0>>, <<10, 8, "0.0001", 1>>,
      <<10, 16, "0.0002", 2>>, <<10, 32, "0.0004", 4>>, <<10, 64, "0.0008", 8>>,
      <<40000, 4, "0.1920", 1920>>, <<40000, 8, "0.3840", 3840>>, <<40000, 16, "0.7680", 7680>>,
      <<40000, 32, "1.5360", 15360>>, <<40000, 64, "3.0720", 30720>>, <<50000, 4, "0.2400", 2400>>,
      <<50000, 8, "0.4800", 4800>>, <<50000, 16, "0.9600", 9600>>, <<50000, 32, "1.9200", 19200>>,
      <<50000, 64, "3.8400", 38400>>, <<60000, 4, "0.2880", 2880>>, <<60000, 8, "0.5760", 5760>>,
      <<60000, 16, "1.1520", 11520>>, <<60000, 32, "2.3040", 23040>>, <<60000, 64, "4.6080", 46080>> }

\* The numeral expected for a candidate's price and CPU count.
CeilingText(cand) ==
    (CHOOSE r \in CeilingTable : r[1] = cand.price_per_core /\ r[2] = cand.cpu_cores)[3]

\* The value of a numeral of the candidate file, in ten-thousandths.
CeilingValue(text) == (CHOOSE r \in CeilingTable : r[3] = text)[4]

\* C24: when the Selector reports a result, the price ceiling of every record
\* of the candidate file is its candidate's price per core times its CPU
\* count times 1.2 with four decimals; of two records, the one whose
\* candidate has neither the higher price per core nor the higher CPU count
\* does not have the higher ceiling; and SPOT_PRICE_LIMIT on stdout is that
\* product for the primary's own price and CPU count.
C24_PriceCeiling ==
    SelSucceeded =>
        \E pas \in {Passing(json_result[1])} :
            LET res == Resolvable(pas)
                kept == Resolvable(FirstN(pas, 5))
                lines == written[1]
            IN  /\ Len(lines) = Len(kept)
                /\ \A i \in 1..Len(lines) : lines[i][7] = CeilingText(kept[i])
                /\ \A i, j \in 1..Len(lines) :
                     (/\ kept[i].price_per_core <= kept[j].price_per_core
                      /\ kept[i].cpu_cores <= kept[j].cpu_cores)
                         => CeilingValue(lines[i][7]) <= CeilingValue(lines[j][7])
                /\ Reported("SPOT_PRICE_LIMIT") = CeilingText(res[1])


-----------------------------------------------------------------------------
(* Properties of the retries *)

\* The creation calls made for candidate k.
CallsFor(k) == {n \in 1..Len(calls) : calls[n].attempt = k}

\* What has been issued so far is within the bounds: the advisor queries are
\* no more than the strategies, 5 for amd64 and 2 for arm64; a candidate has
\* at most 3 creation calls, no two of them with the same disk category; a
\* file of N candidates has at most 3 * N calls and single-attempt mode at
\* most 3.
WithinBounds ==
    /\ prog = "selector" =>
          /\ Len(queries) <= Len(query_strategies)
          /\ params # <<>> => Len(queries) <= (IF params[1].arch = "amd64" THEN 5 ELSE 2)
    /\ prog = "provisioner" =>
          /\ \A n \in 1..Len(calls) : Cardinality(CallsFor(calls[n].attempt)) <= 3
          /\ \A n, m \in 1..Len(calls) :
                (/\ n # m
                 /\ calls[n].attempt = calls[m].attempt)
                    => calls[n].cmd.SystemDiskCategory # calls[m].cmd.SystemDiskCategory
          /\ MultiMode => Len(calls) <= 3 * Len(candidates)
          /\ SingleMode => Len(calls) <= 3

\* A query is the query of the strategy the loop is at, and the loop then
\* leaves that strategy for good; a creation call is followed by another disk
\* category, the next candidate or the end.
NoRetry ==
    /\ Len(queries') > Len(queries) =>
          /\ queries' = Append(queries, QueryCommand(query_strategies[stratIdx], params[1]))
          /\ stratIdx' = stratIdx + 1 \/ pc' # "query"
    /\ stratIdx' >= stratIdx
    /\ Len(calls') > Len(calls) =>
          /\ Len(calls') = Len(calls) + 1
          /\ \/ diskIdx' > diskIdx /\ candIdx' = candIdx
             \/ candIdx' > candIdx
             \/ pc' \in {"done", "single_end", "blocked"}
    /\ candIdx' >= candIdx

\* The number of lines of the candidate file.
FileLines == IF file = <<>> THEN 0 ELSE Len(file[1])

\* A bound on the steps a run has left, by its position.
StepsLeft ==
    CASE prog = "provisioner" ->
           (CASE pc = "start" -> 4 * FileLines + 9
              [] pc = "image" -> 4 * FileLines + 8
              [] pc = "cli" -> 4 * FileLines + 7
              [] pc = "mode" -> 4 * FileLines + 6
              [] pc = "multi" -> 4 * (Len(candidates) + 1 - candIdx) + (4 - diskIdx) + 1
              [] pc = "single" -> (4 - diskIdx) + 2
              [] pc = "single_end" -> 1
              [] pc \in {"done", "blocked"} -> 0)
      [] prog = "selector" ->
           (CASE pc = "start" -> 13
              [] pc = "validate" -> 12
              [] pc = "query" -> 2 * (Len(query_strategies) + 1 - stratIdx) + 1
              [] pc = "filter" -> 1
              [] pc \in {"done", "blocked"} -> 0)
      [] prog = "writer" ->
           (CASE pc = "start" -> 4
              [] pc = "payload" -> 3
              [] pc = "decode" -> 2
              [] pc = "write" -> 1
              [] pc = "done" -> 0)

-----------------------------------------------------------------------------
(* Properties of the lookup timeouts *)

\* The answer of a lookup did not arrive within the short timeout the
\* lookups are bound to (30 seconds).
Late(res) == res.seconds > 30

\* The image-family lookup did not answer in time: the run goes on with the
\* directly configured image ID, which every creation call then uses.
LateLookupFallsBack ==
    (prog = "provisioner" /\ lookup # <<>> /\ Late(lookup[1])
        /\ Truthy(env.ALIYUN_IMAGE_ID)) =>
        /\ image_id = env.ALIYUN_IMAGE_ID
        /\ \A n \in 1..Len(calls) : calls[n].cmd.ImageId = env.ALIYUN_IMAGE_ID
        /\ errMsg = <<>> \/ errMsg[1].kind # "image"

\* The advisor query did not answer in time, or not at all: its answer is not
\* used and the loop is at the next strategy, or past the last one with exit
\* status 1.
LateAdviceFallsThrough ==
    (prog = "selector" /\ lastAdv # <<>> /\ (Late(lastAdv[1]) \/ lastAdv[1].hangs)) =>
        /\ json_result = <<>>
        /\ \/ pc = "query" /\ stratIdx = Len(queries) + 1
           \/ pc = "done" /\ exitStatus = 1 /\ Len(queries) = Len(query_strategies)

\* C26: a lookup call (advisor query, image-family lookup) is bounded by a
\* timeout, and the expiry is a recoverable failure of that one call: the run
\* does not abort but goes on with the next strategy, respectively with the
\* directly configured image ID.
C26_LookupTimeout == LateLookupFallsBack /\ LateAdviceFallsThrough


-----------------------------------------------------------------------------
(* Properties of the disk category of the creation calls *)

\* The external commands started so far that are the command named.
Issued(command) == {i \in 1..Len(ext) : ext[i] = command}

\* C27: in both modes every creation call names a disk category of the
\* static priority list, so the auto-detection query
\* (DescribeAvailableResource) is never issued; the categories tried for one
\* candidate are the list's, from its first entry on, one step at a time.
C27_ExplicitDiskCategory ==
    prog = "provisioner" =>
        /\ Issued("DescribeAvailableResource") = {}
        /\ Cardinality(Issued("RunInstances")) = Len(calls)
        /\ \A n \in 1..Len(calls) :
              /\ ~calls[n].cmd.auto_detect
              /\ calls[n].cmd.SystemDiskCategory \in
                    {"cloud_essd", "cloud_ssd", "cloud_efficiency"}
              /\ calls[n].cmd.SystemDiskCategory =
                    IF n > 1 /\ calls[n - 1].attempt = calls[n].attempt
                    THEN DiskOrder[DiskPlace(calls[n - 1].cmd.SystemDiskCategory) + 1]
                    ELSE DiskOrder[1]

\* C27 witness: single-attempt and multi-attempt runs that went through all
\* three categories for one instance type without an auto-detection query.
C27_Witness ==
    /\ prog = "provisioner" /\ pc = "done"
    /\ Len(calls) >= 3
    /\ calls[1].attempt = calls[3].attempt
    /\ calls[3].cmd.SystemDiskCategory = "cloud_efficiency"
    /\ Issued("DescribeAvailableResource") = {}


-----------------------------------------------------------------------------
(* Properties of the ranges the advisor is asked for *)

\* The CPU and memory ranges a run is configured with, defaults included
\* (8 to 64 cores; memory from 1 GB per core to 64 GB on amd64, from 2 GB
\* per core to 128 GB on arm64).
ConfMinCpu == Configured(env.MIN_CPU, 8)
ConfMaxCpu == Configured(env.MAX_CPU, 64)
ConfMinMem == Configured(env.MIN_MEM, IF ConfiguredArch = "arm64" THEN 2 * ConfMinCpu ELSE ConfMinCpu)
ConfMaxMem == Configured(env.MAX_MEM, IF ConfiguredArch = "arm64" THEN 128 ELSE 64)

\* C28 as stated: every advisor query asks for a CPU range within the
\* configured [min CPU, max CPU] and a memory range within the configured
\* [min memory, max memory].
C28_WithinConfigured ==
    (prog = "selector" /\ params # <<>>) =>
        \A n \in 1..Len(queries) :
            /\ ConfMinCpu <= queries[n].mincpu /\ queries[n].maxcpu <= ConfMaxCpu
            /\ ConfMinMem <= queries[n].minmem /\ queries[n].maxmem <= ConfMaxMem

\* C28, amended: every advisor query asks for at least the configured min
\* CPU; the last strategy (the range) asks for exactly the configured CPU and
\* memory ranges; every strategy before it asks for one CPU count, the
\* configured minimum or 16, and one memory size, that count or twice it,
\* whatever the configured max CPU and memory range are; a CPU count above
\* the configured maximum is asked for only by the 16-core strategies.
C28_QueryRanges ==
    (prog = "selector" /\ params # <<>>) =>
        \A n \in 1..Len(queries) :
            LET q == queries[n]
            IN  /\ ConfMinCpu <= q.mincpu /\ q.mincpu <= q.maxcpu
                /\ q.minmem <= q.maxmem
                /\ n = Len(query_strategies) =>
                      /\ q.mincpu = ConfMinCpu /\ q.maxcpu = ConfMaxCpu
                      /\ q.minmem = ConfMinMem /\ q.maxmem = ConfMaxMem
                /\ n < Len(query_strategies) =>
                      /\ q.mincpu = q.maxcpu /\ q.mincpu \in {ConfMinCpu, 16}
                      /\ q.minmem = q.maxmem /\ q.minmem \in {q.mincpu, 2 * q.mincpu}
                /\ q.maxcpu > ConfMaxCpu => (q.mincpu = 16 /\ ConfMinCpu < 16)

\* C28 witness: with 4 to 8 cores configured the third query asked for 16
\* cores and 16 GB.
C28_Witness ==
    /\ prog = "selector" /\ params # <<>>
    /\ ConfMinCpu = 4 /\ ConfMaxCpu = 8
    /\ Len(queries) >= 3
    /\ queries[3].mincpu = 16 /\ queries[3].maxcpu = 16 /\ queries[3].maxmem = 16


-----------------------------------------------------------------------------
(* Properties of the Selector after a strategy has given a result *)

\* Some strategy's query returned a non-empty result.
HasResult == prog = "selector" /\ lastAdv # <<>> /\ GoodArray(lastAdv[1])

\* With a result the loop is over and the result is the one filtered; when
\* the run has ended and no offer of the result passes filtering, or no
\* filtered candidate has a subnet, the status is 1 and the message is not
\* the one of a loop that ran out of strategies, whatever strategies are left.
ResultDecides ==
    HasResult =>
        /\ pc \in {"filter", "done"}
        /\ json_result = <<lastAdv[1].offers>>
        /\ (pc = "done" /\ NothingSelectable) =>
              /\ exitStatus = 1 /\ stdout = <<>>
              /\ errMsg # <<>> /\ errMsg[1].kind # "no_results"

\* With a result no advisor query is issued any more and the result stays.
NoQueryOnceResult ==
    HasResult =>
        /\ queries' = queries /\ stratIdx' = stratIdx
        /\ lastAdv' = lastAdv /\ json_result' = json_result
        /\ \A i \in 1..Len(ext') : i > Len(ext) => ext'[i] # "spot-instance-advisor"

\* C29: once some strategy's query has returned a non-empty result the
\* Selector's outcome depends on that result alone: when all its offers are
\* rejected by filtering or none has a resolvable subnet the Selector exits 1
\* without querying any of the remaining strategies.
C29_FirstResultFinal == [](ResultDecides) /\ [][NoQueryOnceResult]_vars

\* C29 witness: the first of five strategies returned offers none of which
\* passes filtering; the run ended with status 1 after that one query.
C29_Witness ==
    /\ HasResult /\ pc = "done" /\ exitStatus = 1
    /\ Len(query_strategies) = 5 /\ Len(queries) = 1
    /\ Passing(json_result[1]) = <<>>
    /\ errMsg # <<>> /\ errMsg[1].kind = "no_match"


-----------------------------------------------------------------------------
(* Properties of the primary result and the candidate file *)

\* The primary result on stdout, in the order of a record's fields.
PrimaryFields ==
    <<Reported("INSTANCE_TYPE"), Reported("ZONE_ID"), Reported("VSWITCH_ID"),
      Reported("SPOT_PRICE_LIMIT"), Reported("CPU_CORES")>>

\* C30: on every successful Selector run the file named by CANDIDATES_FILE
\* is non-empty and its first record equals, field for field, the primary
\* result on stdout (INSTANCE_TYPE, ZONE_ID, VSWITCH_ID, SPOT_PRICE_LIMIT,
\* CPU_CORES).
C30_PrimaryIsFirstRecord ==
    SelSucceeded =>
        /\ ReportedKeys = <<"INSTANCE_TYPE", "ZONE_ID", "VSWITCH_ID", "SPOT_PRICE_LIMIT",
                            "CPU_CORES", "CANDIDATES_FILE">>
        /\ Reported("CANDIDATES_FILE") = TempName
        /\ written # <<>> /\ written[1] # <<>>
        /\ Len(written[1][1]) = 10
        /\ \A i \in {2, 4, 6, 8} : written[1][1][i] = "|"
        /\ written[1][1][10] = "\n"
        /\ FieldsOf(written[1][1]) = PrimaryFields

\* C30 witness: the first passing offer is in a zone without a subnet; the
\* primary and the first of two records are the second one's.
C30_Witness ==
    /\ SelSucceeded
    /\ ~Truthy(GetVswitchId(Passing(json_result[1])[1].zone_id, env.subnets))
    /\ Len(written[1]) = 2
    /\ PrimaryFields[2] = "cn-hangzhou-j"
    /\ FieldsOf(written[1][1])[3] = "vsw-j"


-----------------------------------------------------------------------------
(* Properties of the Provisioner's mode *)

\* The run ended the way only single-attempt mode ends: at a missing
\* INSTANCE_TYPE or ALIYUN_VSWITCH_ID, or after the disk categories of the
\* configured instance type.
SingleEnding ==
    /\ pc = "done" /\ errMsg # <<>>
    /\ \/ errMsg[1].kind = "all_disks"
       \/ errMsg[1].kind = "required"
             /\ errMsg[1].var \in {"INSTANCE_TYPE", "ALIYUN_VSWITCH_ID"}

\* The candidates read from the file are none, or all have an empty subnet.
NoUsableCandidate == \A i \in 1..Len(candidates) : candidates[i].vswitch_id = ""

\* C31: the Provisioner runs in multi-attempt mode exactly when
\* CANDIDATES_FILE is set and names an existing file, and in single-attempt
\* mode otherwise (also when the named file does not exist); in multi-attempt
\* mode every creation call is a candidate's, and a file that yields no
\* usable candidate ends the run with status 1 and no creation call, never
\* with the configured instance type and subnet.
C31_ModeSelection ==
    prog = "provisioner" =>
        /\ pc = "multi" => MultiMode
        /\ pc = "single" => SingleMode
        /\ MultiMode =>
              /\ ~SingleEnding
              /\ \A n \in 1..Len(calls) :
                    /\ calls[n].attempt \in 1..Len(candidates)
                    /\ calls[n].cmd.InstanceType = candidates[calls[n].attempt].instance_type
                    /\ calls[n].cmd.VSwitchId = candidates[calls[n].attempt].vswitch_id
                    /\ calls[n].cmd.VSwitchId # ""
              /\ (pc = "done" /\ NoUsableCandidate) =>
                    (exitStatus = 1 /\ calls = <<>> /\ stdout = <<>>)
        /\ SingleMode =>
              /\ candidates = <<>>
              /\ errMsg # <<>> => errMsg[1].kind # "exhausted"
              /\ \A n \in 1..Len(calls) :
                    /\ calls[n].cmd.InstanceType = env.INSTANCE_TYPE
                    /\ calls[n].cmd.VSwitchId = env.ALIYUN_VSWITCH_ID

\* C31 witness: an instance type and a subnet are configured, the file
\* holds two records, both with an empty subnet; the run ended with status 1
\* after two attempts counted and no creation call.
C31_Witness ==
    /\ MultiMode /\ pc = "done" /\ exitStatus = 1
    /\ env.INSTANCE_TYPE = "ecs.c7.large" /\ env.ALIYUN_VSWITCH_ID = "vsw-0"
    /\ Len(candidates) = 2 /\ NoUsableCandidate
    /\ errMsg # <<>> /\ errMsg[1].kind = "exhausted" /\ errMsg[1].count = 2
    /\ calls = <<>>

====
